---- MODULE Spec2Model ----
(***************************************************************************)
(* Two Protocol sessions ("A" and "B") whose streams are piped into each   *)
(* other, each with the built-in ExtensionInit and the user extensions.    *)
(*                                                                         *)
(*   Extension runtime   packages/protocol/src/extension.js                *)
(*   ExtensionInit       packages/protocol/src/extension-init.js           *)
(*   Protocol (session)  packages/protocol/src/protocol.js                 *)
(*                                                                         *)
(* protocol.js calls the init gate continue()/break(); extension-init.js   *)
(* names the same two methods validate()/invalidate().                     *)
(***************************************************************************)
EXTENDS Integers, Sequences, FiniteSets, TLC

VARIABLES
    pc,          \* per peer: position of the 'handshake' listener of Protocol.init
    idx,         \* per peer: loop index of the listener's current for-loop
    awaiting,    \* per peer: id of the send the listener is awaiting (0: none)
    caught,      \* per peer: the error the listener's catch block holds
    remoteInit,  \* per peer: ExtensionInit._remoteInit ("null", "true", "false")
    signal,      \* per peer: ExtensionInit._remoteSignal ("idle", "waiting", "notified", "rejected")
    destroyed,   \* per peer: stream.destroyed
    destroyErr,  \* per peer: the error the stream was destroyed with
    eosDone,     \* per peer: the end-of-stream callback has run
    closeCount,  \* per peer, per extension: calls of Extension.onClose
    net,         \* per peer: frames in flight towards the peer, in transport order
    calls,       \* every Extension.send made so far, by id: request, promise, timer
    pending,     \* per peer, per extension: keys of Extension._pendingMessages
    stats,       \* per peer, per extension: Extension._stats
    extErrors,   \* per peer, per extension: 'error' events emitted by the extension
    running,     \* per peer: message handler invocations suspended at their await
    handled,     \* per peer: ids of the frames passed to a message handler
    wlog,        \* per peer: frames written with feed.extension, in order
    log,         \* per peer: hooks run and session events emitted, in order
    initFails,   \* per peer: index of the user extension whose onInit throws (0: none)
    registered,  \* per peer: names given to setExtension, in Map order
    advertised,  \* per peer: stream.extensions
    topic,       \* per peer: the discoveryKey given to init ("none": no topic)
    lookup,      \* per peer: what discoveryToPublicKey does ("key", "nothing", "throws")
    feedKey,     \* per peer: key of the feed channel the session opened ("none": not open)
    emitted,     \* per peer: codes of the 'error' events the session emitted, in order
    resource,    \* per peer: state of the session as a nanoresource
    closeRuns,   \* per peer: runs of Protocol._close
    closeCalls,  \* per peer: calls of Protocol.close made by the owner
    userData,    \* per run, per peer: stream.userData
    remoteUserData, \* per run, per peer: stream.remoteUserData
    context,     \* per run, per peer: Protocol._context
    hello,       \* per run, per peer: the transport handshake message of the peer
    passed,      \* per run, per peer: the object last given to setSession before open
    boot,        \* per peer: Protocol._init, the outcomes of the init calls, what init installed
    extErrorCodes, \* per peer, per extension: codes of the 'error' events the extension emitted
    extensionMap \* per peer, per name: the extension object Protocol._extensionMap holds

vars == <<pc, idx, awaiting, caught, remoteInit, signal, destroyed, destroyErr,
          eosDone, closeCount, net, calls, pending, stats, extErrors, running,
          handled, wlog, log, initFails, registered, advertised, topic, lookup,
          feedKey, emitted, resource, closeRuns, closeCalls, userData,
          remoteUserData, context, hello, passed, boot, extErrorCodes,
          extensionMap>>

lifeVars == <<pc, idx, awaiting, caught, log>>
gateVars == <<remoteInit, signal>>
streamVars == <<destroyed, destroyErr, eosDone, closeCount>>
nameVars == <<registered, advertised>>
connVars == <<topic, lookup, feedKey, emitted>>
closeVars == <<resource, closeRuns, closeCalls>>
dataVars == <<userData, remoteUserData, context, hello, passed>>
bootVars == <<boot>>
errVars == <<extErrorCodes>>
mapVars == <<extensionMap>>
sessionVars == <<nameVars, connVars, closeVars, dataVars, bootVars, errVars, mapVars>>

(***************************************************************************)
(* Bounds of the model.                                                    *)
(***************************************************************************)
MaxSends == 2        \* user-level sends on the "buffer" extension

(***************************************************************************)
(* The two sessions and their extensions.                                  *)
(***************************************************************************)
Peers == {"A", "B"}

Other(p) == IF p = "A" THEN "B" ELSE "A"

InitExtName == "dxos.protocol.init"

\* The user extensions of a session, in registration order.
UserExts == <<"buffer">>

NumExts == Len(UserExts)

ExtNames == {InitExtName} \cup {UserExts[i] : i \in 1..NumExts}

\* Number of user handshake callbacks of a session (setHandshakeHandler).
Handshakes == <<"handshake1">>

\* Only B's "buffer" extension installs a message handler; ExtensionInit
\* installs its own on both peers.
HasMessageHandler(p, e) == e = InitExtName \/ (p = "B" /\ e = "buffer")

NoError == [code |-> "", message |-> ""]

Undefined == "undefined"

\* The user message handler of the receiving peer, by request data:
\* return a value, throw a plain Error, or throw a ProtocolError.
messageHandler(data) ==
    CASE data = "ping"  -> [throws |-> FALSE, value |-> "pong", isProtocolError |-> FALSE,
                            code |-> "", message |-> ""]
      [] data = "deny"  -> [throws |-> TRUE, value |-> Undefined, isProtocolError |-> TRUE,
                            code |-> "ERR_DENIED", message |-> "Denied."]
      [] OTHER          -> [throws |-> TRUE, value |-> Undefined, isProtocolError |-> FALSE,
                            code |-> "", message |-> "Invalid data."]

\* What a user may send: (data, oneway).
UserRequests ==
    {<<"ping", FALSE>>, <<"crash", FALSE>>, <<"deny", FALSE>>,
     <<"ping", TRUE>>, <<"crash", TRUE>>}

(***************************************************************************)
(* Frames, promises, timers.                                               *)
(***************************************************************************)
\* The envelope Extension.send builds.
Request(e, id, data, oneway) ==
    [ext |-> e, id |-> id, data |-> data, oneway |-> oneway, error |-> NoError]

\* The envelope onMessage answers a returned value with.
Response(e, id, data) ==
    [ext |-> e, id |-> id, data |-> data, oneway |-> FALSE, error |-> NoError]

\* The envelope onMessage answers a thrown error with.
ErrorCodeOf_NoInstanceCheck(h) == h.code

ErrorCodeOf(h) == IF h.isProtocolError THEN h.code ELSE "ERR_SYSTEM"

ErrorResponse(e, id, h) ==
    [ext |-> e, id |-> id, data |-> Undefined, oneway |-> FALSE,
     error |-> [code |-> ErrorCodeOf(h), message |-> h.message]]

\* What a promise settles with: the response data, or the error's fields.
Val(data) == [data |-> data, code |-> "", message |-> ""]

ErrVal(err) == [data |-> "undefined", code |-> err.code, message |-> err.message]

\* A promise settles once: resolve and reject of a settled promise do nothing.
Settle(c, st, v) ==
    IF c.state = "pending"
    THEN [c EXCEPT !.state = st, !.value = v, !.settled = c.settled + 1]
    ELSE c

Write_Front(n, p, f) ==
    IF destroyed[p] \/ destroyed[Other(p)]
    THEN n
    ELSE [n EXCEPT ![Other(p)] = <<f>> \o @]

\* feed.extension(name, frame) on the stream of p: the frame reaches the
\* other side unless one of the two streams is destroyed.
Write(n, p, f) ==
    IF destroyed[p] \/ destroyed[Other(p)]
    THEN n
    ELSE [n EXCEPT ![Other(p)] = Append(@, f)]

NextId == Len(calls) + 1

(***************************************************************************)
(* Extension.send and its timer.                                           *)
(***************************************************************************)
TimeoutError == [code |-> "ERR_REQUEST_TIMEOUT", message |-> ""]

\* The bookkeeping of one send: the request, the promise returned to the
\* caller (state, value, done, expired) and the timer armed for it. A oneway
\* send returns undefined at once and has neither callback nor timer.
\* "settled" counts the outcomes the caller observed, "first" records which
\* of response, error response and timer came first.
NewCall(p, e, data, oneway) ==
    [peer |-> p, ext |-> e, data |-> data, oneway |-> oneway,
     state |-> IF oneway THEN "resolved" ELSE "pending",
     value |-> Val(Undefined),
     settled |-> IF oneway THEN 1 ELSE 0,
     done |-> FALSE, expired |-> FALSE,
     timer |-> IF oneway THEN "none" ELSE "armed",
     first |-> "none"]

PendingAfterSend_Always(pend, p, e, id, oneway) ==
    [pend EXCEPT ![p][e] = @ \cup {id}]

\* _pendingMessages after send: only a send that expects a response
\* registers its callback.
PendingAfterSend(pend, p, e, id, oneway) ==
    IF oneway THEN pend ELSE [pend EXCEPT ![p][e] = @ \cup {id}]

\* Extension.send(message, {oneway}) on extension e of peer p, with _send.
send(p, e, data, oneway) ==
    /\ calls' = Append(calls, NewCall(p, e, data, oneway))
    /\ net' = Write(net, p, Request(e, NextId, data, oneway))
    /\ wlog' = [wlog EXCEPT ![p] = Append(@, Request(e, NextId, data, oneway))]
    /\ stats' = [stats EXCEPT ![p][e].send = @ + 1]
    /\ pending' = PendingAfterSend(pending, p, e, NextId, oneway)

TimerBody_NoReject(c) ==
    IF ~c.done
    THEN [c EXCEPT !.timer = "fired", !.expired = TRUE,
                   !.first = IF @ = "none" THEN "timeout" ELSE @]
    ELSE [c EXCEPT !.timer = "fired"]

\* The setTimeout callback of send.
TimerBody(c) ==
    IF ~c.done
    THEN Settle([c EXCEPT !.timer = "fired", !.expired = TRUE,
                          !.first = IF @ = "none" THEN "timeout" ELSE @],
                "rejected", ErrVal(TimeoutError))
    ELSE [c EXCEPT !.timer = "fired"]

StreamAfterTimer_Destroys(d, c) ==
    IF ~c.done THEN [d EXCEPT ![c.peer] = TRUE] ELSE d

\* The streams after the setTimeout callback of call c: it counts the
\* error and rejects the promise, and does nothing to the stream.
StreamAfterTimer(d, c) == d

\* The timer of call id fires, timeout ms after the send.
TimerFire(id) ==
    /\ id \in DOMAIN calls
    /\ calls[id].timer = "armed"
    /\ calls' = [calls EXCEPT ![id] = TimerBody(@)]
    /\ stats' = IF calls[id].done THEN stats
                ELSE [stats EXCEPT ![calls[id].peer][calls[id].ext].error = @ + 1]
    /\ destroyed' = StreamAfterTimer(destroyed, calls[id])
    /\ UNCHANGED <<lifeVars, gateVars, destroyErr, eosDone, closeCount, net, pending,
                   extErrors, running, handled, wlog, initFails, sessionVars>>

SenderCallback_ResolveExpired(c, f) ==
    LET c1 == [c EXCEPT !.done = TRUE,
                        !.first = IF @ # "none" THEN @
                                  ELSE IF f.error # NoError THEN "error" ELSE "response"]
    IN  IF f.error # NoError THEN [c1 EXCEPT !.state = "rejected", !.value = ErrVal(f.error),
                                             !.settled = @ + 1]
        ELSE [c1 EXCEPT !.state = "resolved", !.value = Val(f.data), !.settled = @ + 1]

\* The callback send stores in _pendingMessages, called with (response, error).
SenderCallback(c, f) ==
    LET c1 == [c EXCEPT !.done = TRUE,
                        !.first = IF @ # "none" THEN @
                                  ELSE IF f.error # NoError THEN "error" ELSE "response"]
    IN  IF f.error # NoError THEN Settle(c1, "rejected", ErrVal(f.error))
        ELSE IF c.expired THEN c1
        ELSE Settle(c1, "resolved", Val(f.data))

CallbackEmitsError_Silent(c, f) == FALSE

NoHandlerError_NoHandlerCode == [code |-> "ERR_NO_HANDLER", message |-> "No message handler"]

\* The error onMessage emits when no message handler is installed.
NoHandlerError == [code |-> "ERR_SYSTEM", message |-> "No message handler"]

\* The callback emits 'error' for a response that comes after the timeout.
CallbackEmitsError(c, f) == f.error = NoError /\ c.expired

Reply_ThrowIgnoresOneway(e, id, oneway, h) ==
    IF h.throws THEN <<ErrorResponse(e, id, h)>>
    ELSE IF oneway THEN <<>>
    ELSE <<Response(e, id, h.value)>>

\* The frames onMessage writes once the message handler has finished with
\* outcome h: none for a oneway request, else the response or the error.
Reply(e, id, oneway, h) ==
    IF oneway THEN <<>>
    ELSE IF h.throws THEN <<ErrorResponse(e, id, h)>>
    ELSE <<Response(e, id, h.value)>>

WriteAll(n, p, fs) == IF fs = <<>> THEN n ELSE Write(n, p, fs[1])

\* The message handler ExtensionInit installs: it returns undefined.
InitHandlerResult ==
    [throws |-> FALSE, value |-> Undefined, isProtocolError |-> FALSE,
     code |-> "", message |-> ""]

RemoteInitAfter_InvalidAsValid(r, data) ==
    IF data \in {"valid", "invalid"} THEN "true" ELSE r

\* _remoteInit after the ExtensionInit message handler has seen data.
RemoteInitAfter(r, data) ==
    CASE data = "valid"   -> "true"
      [] data = "invalid" -> "false"
      [] OTHER            -> r

Notify_Lost(s) == s

\* _remoteSignal.notify(): wakes the waiter, if there is one.
Notify(s) == IF s = "waiting" THEN "notified" ELSE s

\* _remoteSignal.notify(err): fails the waiter, if there is one.
NotifyError(s) == IF s = "waiting" THEN "rejected" ELSE s

(***************************************************************************)
(* Extension.onMessage.                                                    *)
(***************************************************************************)
Invocation(f) == [ext |-> f.ext, id |-> f.id, data |-> f.data, oneway |-> f.oneway]

RunningAfterDispatch_Queued(run, f) ==
    IF \E inv \in run : inv.ext = f.ext THEN run ELSE run \cup {Invocation(f)}

\* The suspended invocations once onMessage has called the message handler
\* for frame f: the call is made at once, whatever is still suspended.
RunningAfterDispatch(run, f) == run \cup {Invocation(f)}

\* The lookup of the frame's id in _pendingMessages.
PendingMatch(pend, f) == f.id \in pend[f.ext]

CallbackFor_Oldest(pend, f) ==
    CHOOSE id \in pend[f.ext] : \A other \in pend[f.ext] : id <= other

\* The send whose callback _pendingMessages.get(id) returns for a frame
\* that has one.
CallbackFor(pend, f) == f.id

\* The transport hands the next frame to the extension it names. A frame
\* whose id has a stored callback settles that send; any other frame is a
\* request for the message handler. The handler of ExtensionInit is
\* synchronous, so its reply (and the stream.destroy of a 'destroy' token)
\* belongs to the same step; a user handler suspends and finishes later.
onMessage(p) ==
    /\ ~destroyed[p]
    /\ pc[p] # "await_handshake"
    /\ net[p] # <<>>
    /\ LET f == Head(net[p])
           e == f.ext
           rest == [net EXCEPT ![p] = Tail(@)]
           reply == Reply(e, f.id, f.oneway, InitHandlerResult)
           cb == CallbackFor(pending[p], f)
       IN  IF PendingMatch(pending[p], f)
           THEN /\ pending' = [pending EXCEPT ![p][e] = @ \ {cb}]
                /\ calls' = [calls EXCEPT ![cb] = SenderCallback(@, f)]
                /\ stats' = [stats EXCEPT ![p][e].receive = @ + 1]
                /\ extErrors' = IF CallbackEmitsError(calls[cb], f)
                                THEN [extErrors EXCEPT ![p][e] = @ + 1]
                                ELSE extErrors
                /\ extErrorCodes' = IF CallbackEmitsError(calls[cb], f)
                                    THEN [extErrorCodes EXCEPT ![p][e] = @ \cup {TimeoutError.code}]
                                    ELSE extErrorCodes
                /\ net' = rest
                /\ UNCHANGED <<gateVars, destroyed, destroyErr, running, handled, wlog>>
           ELSE IF ~HasMessageHandler(p, e)
           THEN /\ extErrors' = [extErrors EXCEPT ![p][e] = @ + 1]
                /\ extErrorCodes' = [extErrorCodes EXCEPT ![p][e] = @ \cup {NoHandlerError.code}]
                /\ net' = rest
                /\ UNCHANGED <<pending, calls, stats, gateVars, destroyed, destroyErr,
                               running, handled, wlog>>
           ELSE IF e = InitExtName
           THEN /\ remoteInit' = [remoteInit EXCEPT ![p] = RemoteInitAfter(@, f.data)]
                /\ signal' = [signal EXCEPT ![p] =
                                 IF f.data \in {"valid", "invalid"} THEN Notify(@) ELSE @]
                /\ destroyed' = [destroyed EXCEPT ![p] = f.data = "destroy"]
                /\ destroyErr' = [destroyErr EXCEPT ![p] =
                                     IF f.data = "destroy" THEN "invalid peer" ELSE @]
                /\ handled' = [handled EXCEPT ![p] = @ \cup {f.id}]
                /\ wlog' = [wlog EXCEPT ![p] = @ \o reply]
                /\ net' = IF f.data = "destroy"
                          THEN [rest EXCEPT ![p] = <<>>]
                          ELSE WriteAll(rest, p, reply)
                /\ UNCHANGED <<pending, calls, stats, extErrors, running, errVars>>
           ELSE /\ running' = [running EXCEPT ![p] = RunningAfterDispatch(@, f)]
                /\ handled' = [handled EXCEPT ![p] = @ \cup {f.id}]
                /\ net' = rest
                /\ UNCHANGED <<pending, calls, stats, extErrors, gateVars, destroyed,
                               destroyErr, wlog, errVars>>
    /\ UNCHANGED <<lifeVars, eosDone, closeCount, initFails, nameVars, connVars,
                   closeVars, dataVars, bootVars, mapVars>>

StatsAfterReply_Counted(st, p, e, reply) == [st EXCEPT ![p][e].send = @ + Len(reply)]

\* _stats after onMessage has written its response: the response goes to
\* feed.extension directly, not through _send, and is not counted.
StatsAfterReply(st, p, e, reply) == st

\* A suspended user message handler returns or throws, and onMessage
\* goes on after its await: it writes the response, unless oneway.
HandlerSettle(p) ==
    \E inv \in running[p] :
        LET reply == Reply(inv.ext, inv.id, inv.oneway, messageHandler(inv.data))
        IN  /\ running' = [running EXCEPT ![p] = @ \ {inv}]
            /\ wlog' = [wlog EXCEPT ![p] = @ \o reply]
            /\ net' = WriteAll(net, p, reply)
            /\ stats' = StatsAfterReply(stats, p, inv.ext, reply)
            /\ UNCHANGED <<lifeVars, gateVars, streamVars, calls, pending,
                           extErrors, handled, initFails, sessionVars>>

(***************************************************************************)
(* The streams.                                                            *)
(***************************************************************************)
\* stream.destroy() called by the owner of the session, or the connection lost.
StreamDestroy(p) ==
    /\ ~destroyed[p]
    /\ destroyed' = [destroyed EXCEPT ![p] = TRUE]
    /\ net' = [net EXCEPT ![p] = <<>>]
    /\ UNCHANGED <<lifeVars, gateVars, destroyErr, eosDone, closeCount, calls, pending,
                   stats, extErrors, running, handled, wlog, initFails, sessionVars>>

\* pump(stream1, stream2, stream1): when one stream is gone the other is destroyed.
Pump(p) ==
    /\ destroyed[Other(p)]
    /\ ~destroyed[p]
    /\ destroyed' = [destroyed EXCEPT ![p] = TRUE]
    /\ net' = [net EXCEPT ![p] = <<>>]
    /\ UNCHANGED <<lifeVars, gateVars, destroyErr, eosDone, closeCount, calls, pending,
                   stats, extErrors, running, handled, wlog, initFails, sessionVars>>

RemoteInitAfterClose_Keeps(r) == r

\* _remoteInit after the close handler of ExtensionInit.
RemoteInitAfterClose(r) == "false"

\* The end-of-stream callback of Protocol.init: onClose of ExtensionInit (its
\* close handler records 'invalid' and fails the waiter), then onClose of
\* every user extension.
Eos(p) ==
    /\ destroyed[p]
    /\ ~eosDone[p]
    /\ eosDone' = [eosDone EXCEPT ![p] = TRUE]
    /\ remoteInit' = [remoteInit EXCEPT ![p] = RemoteInitAfterClose(@)]
    /\ signal' = [signal EXCEPT ![p] = NotifyError(@)]
    /\ closeCount' = [closeCount EXCEPT ![p] = [e \in ExtNames |-> @[e] + 1]]
    /\ UNCHANGED <<lifeVars, destroyed, destroyErr, net, calls, pending, stats,
                   extErrors, running, handled, wlog, initFails, sessionVars>>

\* The owner of a running session sends a request on its "buffer" extension.
UserSends == Cardinality({i \in DOMAIN calls : calls[i].ext = "buffer"})

UserSend(p, req) ==
    /\ p = "A"
    /\ pc[p] = "running"
    /\ UserSends < MaxSends
    /\ send(p, "buffer", req[1], req[2])
    /\ UNCHANGED <<lifeVars, gateVars, streamVars, extErrors, running, handled, initFails, sessionVars>>

(***************************************************************************)
(* The 'handshake' listener of Protocol.init.                              *)
(***************************************************************************)
Logged(p, entry) == [log EXCEPT ![p] = Append(@, entry)]

runtimeVars == <<net, calls, pending, stats, extErrors, running, handled, wlog>>

\* The transport's 'handshake' event starts the listener.
TransportHandshake(p) ==
    /\ pc[p] = "await_handshake"
    /\ ~destroyed[p]
    /\ pc' = [pc EXCEPT ![p] = "init_loop"]
    /\ idx' = [idx EXCEPT ![p] = 1]
    /\ UNCHANGED <<awaiting, caught, log, gateVars, streamVars, runtimeVars, initFails, sessionVars>>

\* One turn of the loop over the user extensions: leave if the stream is
\* destroyed, else call the extension's onInit.
InitLoop(p) ==
    /\ pc[p] = "init_loop"
    /\ idx[p] <= NumExts
    /\ pc' = [pc EXCEPT ![p] = IF destroyed[p] THEN "returned" ELSE "onInit"]
    /\ log' = IF destroyed[p] THEN log ELSE Logged(p, <<"onInit", UserExts[idx[p]]>>)
    /\ UNCHANGED <<idx, awaiting, caught, gateVars, streamVars, runtimeVars, initFails, sessionVars>>

\* The awaited extension.onInit() returns, or throws into the catch block.
onInit(p) ==
    /\ pc[p] = "onInit"
    /\ IF initFails[p] = idx[p]
       THEN /\ pc' = [pc EXCEPT ![p] = "catch"]
            /\ caught' = [caught EXCEPT ![p] = "onInit error"]
            /\ UNCHANGED <<idx, log>>
       ELSE /\ pc' = [pc EXCEPT ![p] = "init_loop"]
            /\ idx' = [idx EXCEPT ![p] = @ + 1]
            /\ log' = Logged(p, <<"onInit.done", UserExts[idx[p]]>>)
            /\ UNCHANGED caught
    /\ UNCHANGED <<awaiting, gateVars, streamVars, runtimeVars, initFails, sessionVars>>

\* ExtensionInit.validate (continue), up to its first await: send 'valid'.
validate(p) ==
    /\ pc[p] = "init_loop"
    /\ idx[p] > NumExts
    /\ send(p, InitExtName, "valid", FALSE)
    /\ awaiting' = [awaiting EXCEPT ![p] = NextId]
    /\ pc' = [pc EXCEPT ![p] = "validate_await"]
    /\ UNCHANGED <<idx, caught, log, gateVars, streamVars, extErrors, running, handled,
                   initFails, sessionVars>>

AfterValidate_IgnoreResult(ok) == "handshake_loop"

\* The listener after the init gate: go on when it returned true, throw
\* 'invalid init protocol' when it returned false.
AfterValidate(ok) == IF ok THEN "handshake_loop" ELSE "catch"

ValidateReturns(p, ok) ==
    /\ pc' = [pc EXCEPT ![p] = AfterValidate(ok)]
    /\ idx' = [idx EXCEPT ![p] = 1]
    /\ caught' = [caught EXCEPT ![p] = IF AfterValidate(ok) = "catch"
                                       THEN "invalid init protocol" ELSE @]

ValidateWaits_Always(r) == TRUE

\* validate waits for the signal only when no remote result is recorded.
ValidateWaits(r) == r = "null"

\* validate after the send has settled: a rejected send makes it return
\* false; otherwise it returns the recorded _remoteInit, or waits for the
\* signal when nothing is recorded yet.
validateResume(p) ==
    /\ pc[p] = "validate_await"
    /\ calls[awaiting[p]].state # "pending"
    /\ awaiting' = [awaiting EXCEPT ![p] = 0]
    /\ IF calls[awaiting[p]].state = "rejected"
       THEN ValidateReturns(p, FALSE) /\ UNCHANGED signal
       ELSE IF ~ValidateWaits(remoteInit[p])
       THEN ValidateReturns(p, remoteInit[p] = "true") /\ UNCHANGED signal
       ELSE /\ pc' = [pc EXCEPT ![p] = "signal_wait"]
            /\ signal' = [signal EXCEPT ![p] = "waiting"]
            /\ UNCHANGED <<idx, caught>>
    /\ UNCHANGED <<log, remoteInit, streamVars, runtimeVars, initFails, sessionVars>>

\* validate after _remoteSignal.wait(): notified, it returns _remoteInit;
\* failed by the close handler, it returns false.
signalResume(p) ==
    /\ pc[p] = "signal_wait"
    /\ signal[p] \in {"notified", "rejected"}
    /\ signal' = [signal EXCEPT ![p] = "idle"]
    /\ ValidateReturns(p, signal[p] = "notified" /\ remoteInit[p] = "true")
    /\ UNCHANGED <<awaiting, log, remoteInit, streamVars, runtimeVars, initFails, sessionVars>>

\* One turn of the loop over the user handshake callbacks.
HandshakeLoop(p) ==
    /\ pc[p] = "handshake_loop"
    /\ IF idx[p] <= Len(Handshakes)
       THEN /\ pc' = [pc EXCEPT ![p] = IF destroyed[p] THEN "returned" ELSE "handshake_cb"]
            /\ log' = IF destroyed[p] THEN log
                      ELSE Logged(p, <<"handshake.cb", Handshakes[idx[p]]>>)
            /\ UNCHANGED idx
       ELSE /\ pc' = [pc EXCEPT ![p] = "onHandshake_loop"]
            /\ idx' = [idx EXCEPT ![p] = 1]
            /\ UNCHANGED log
    /\ UNCHANGED <<awaiting, caught, gateVars, streamVars, runtimeVars, initFails, sessionVars>>

\* The awaited user handshake callback returns.
HandshakeCb(p) ==
    /\ pc[p] = "handshake_cb"
    /\ pc' = [pc EXCEPT ![p] = "handshake_loop"]
    /\ idx' = [idx EXCEPT ![p] = @ + 1]
    /\ log' = Logged(p, <<"handshake.cb.done", Handshakes[idx[p]]>>)
    /\ UNCHANGED <<awaiting, caught, gateVars, streamVars, runtimeVars, initFails, sessionVars>>

\* One turn of the loop over Extension.onHandshake, and after the last
\* turn the 'handshake' event; each turn leaves if the stream is destroyed.
OnHandshakeLoop(p) ==
    /\ pc[p] = "onHandshake_loop"
    /\ IF destroyed[p]
       THEN pc' = [pc EXCEPT ![p] = "returned"] /\ UNCHANGED <<idx, log>>
       ELSE IF idx[p] <= NumExts
       THEN /\ log' = Logged(p, <<"onHandshake", UserExts[idx[p]]>>)
            /\ idx' = [idx EXCEPT ![p] = @ + 1]
            /\ UNCHANGED pc
       ELSE /\ log' = Logged(p, <<"emit", "handshake">>)
            /\ pc' = [pc EXCEPT ![p] = "running"]
            /\ UNCHANGED idx
    /\ UNCHANGED <<awaiting, caught, gateVars, streamVars, runtimeVars, initFails, sessionVars>>

InvalidateSkips_Never(r) == FALSE

\* ExtensionInit.invalidate (break) returns at once when a remote result
\* is recorded.
InvalidateSkips(r) == r # "null"

\* The catch block calls invalidate: unless it returns at once it sends 'invalid'.
invalidate(p) ==
    /\ pc[p] = "catch"
    /\ IF InvalidateSkips(remoteInit[p])
       THEN /\ pc' = [pc EXCEPT ![p] = "finally"]
            /\ UNCHANGED <<awaiting, net, calls, pending, stats, wlog>>
       ELSE /\ send(p, InitExtName, "invalid", FALSE)
            /\ awaiting' = [awaiting EXCEPT ![p] = NextId]
            /\ pc' = [pc EXCEPT ![p] = "invalidate_await"]
    /\ UNCHANGED <<idx, caught, log, gateVars, streamVars, extErrors, running, handled,
                   initFails, sessionVars>>

\* invalidate after 'invalid' has settled: answered, it sends 'destroy'
\* one-way; rejected, the error is swallowed.
invalidateResume(p) ==
    /\ pc[p] = "invalidate_await"
    /\ calls[awaiting[p]].state # "pending"
    /\ awaiting' = [awaiting EXCEPT ![p] = 0]
    /\ pc' = [pc EXCEPT ![p] = "finally"]
    /\ IF calls[awaiting[p]].state = "resolved"
       THEN send(p, InitExtName, "destroy", TRUE)
       ELSE UNCHANGED <<net, calls, pending, stats, wlog>>
    /\ UNCHANGED <<idx, caught, log, gateVars, streamVars, extErrors, running, handled,
                   initFails, sessionVars>>

HandshakeErrorCode_ConnectionInvalid == "ERR_PROTOCOL_CONNECTION_INVALID"

\* The code the catch block puts on the caught error.
HandshakeErrorCode == "ERR_ON_HANDSHAKE"

\* break().finally: tag the error, destroy the stream with it, emit 'error'.
Finally(p) ==
    /\ pc[p] = "finally"
    /\ pc' = [pc EXCEPT ![p] = "aborted"]
    /\ destroyed' = [destroyed EXCEPT ![p] = TRUE]
    /\ destroyErr' = [destroyErr EXCEPT ![p] = IF destroyed[p] THEN @ ELSE HandshakeErrorCode]
    /\ net' = [net EXCEPT ![p] = <<>>]
    /\ log' = Logged(p, <<"emit", "error">>)
    /\ UNCHANGED <<idx, awaiting, caught, gateVars, eosDone, closeCount, calls, pending,
                   stats, extErrors, running, handled, wlog, initFails, sessionVars>>

(***************************************************************************)
(* The extension names a session advertises to the transport.              *)
(***************************************************************************)
\* The UTF-16 code units of the names used, which Array.prototype.sort compares.
CodeUnits(name) ==
    CASE name = "buffer" -> <<98, 117, 102, 102, 101, 114>>
      [] name = "buf"    -> <<98, 117, 102>>
      [] name = "auth"   -> <<97, 117, 116, 104>>
      [] name = "Zeta"   -> <<90, 101, 116, 97>>
      [] name = "dxos.protocol.init" ->
             <<100, 120, 111, 115, 46, 112, 114, 111, 116, 111, 99, 111, 108, 46,
               105, 110, 105, 116>>

RECURSIVE LexLess(_, _)
\* String comparison a < b: by the first differing code unit, a proper prefix first.
LexLess(a, b) ==
    IF a = <<>> THEN b # <<>>
    ELSE IF b = <<>> THEN FALSE
    ELSE IF a[1] # b[1] THEN a[1] < b[1]
    ELSE LexLess(Tail(a), Tail(b))

NameLess(x, y) == LexLess(CodeUnits(x), CodeUnits(y))

RECURSIVE Insert(_, _)
Insert(name, sorted) ==
    IF sorted = <<>> THEN <<name>>
    ELSE IF NameLess(name, sorted[1]) THEN <<name>> \o sorted
    ELSE <<sorted[1]>> \o Insert(name, Tail(sorted))

RECURSIVE Sort(_)
\* Array.prototype.sort() without a comparator, on strings.
Sort(names) ==
    IF names = <<>> THEN <<>>
    ELSE Insert(names[Len(names)], Sort(SubSeq(names, 1, Len(names) - 1)))

\* Map.set(name, extension): a new key goes last, a known key keeps its place.
MapSet(reg, name) ==
    IF \E k \in DOMAIN reg : reg[k] = name THEN reg ELSE Append(reg, name)

sortedExtensions_Unsorted(reg) == <<InitExtName>> \o reg

\* The list init pushes to stream.extensions: the init extension's name
\* and the names of _extensionMap, sorted.
sortedExtensions(reg) == Sort(<<InitExtName>> \o reg)

(***************************************************************************)
(* Session data and context.                                               *)
(***************************************************************************)
\* Two runs of the same system are kept side by side, to compare what a
\* peer can observe in them.
Runs == {1, 2}

\* The objects a user passes to setSession.
SessionValues == {[user |-> "user1"], [user |-> "user2"]}

\* The object {}.
EmptyObject == [user |-> ""]

Stringify_Lossy(v) == "{}"

\* JSON.stringify, as buffer-json-encoding applies it.
Stringify(v) ==
    CASE v.user = "user1" -> "{\"user\":\"user1\"}"
      [] v.user = "user2" -> "{\"user\":\"user2\"}"
      [] OTHER            -> "{}"

\* JSON.parse, as buffer-json-encoding applies it.
Parse(text) ==
    CASE text = "{\"user\":\"user1\"}" -> [user |-> "user1"]
      [] text = "{\"user\":\"user2\"}" -> [user |-> "user2"]
      [] OTHER                            -> EmptyObject

\* A stream's userData / remoteUserData that was never set.
NoBuffer == [set |-> FALSE, text |-> ""]

\* bufferJson.encode(data)
encode(v) == [set |-> TRUE, text |-> Stringify(v)]

\* Protocol.getSession on a stream with this remoteUserData: the decoded
\* value, or {} when decoding throws.
getSession(buf) == IF buf.set THEN Parse(buf.text) ELSE EmptyObject

\* The transport's handshake message of a peer, before the peer opened its
\* first feed: not sent, and carrying nothing yet.
NoHello == [state |-> "unsent", userData |-> NoBuffer]

\* The objects a user passes to setContext.
ContextValues == {"ctx1", "ctx2"}

EmptyContext == "{}"

\* The session-level state of two sessions that were built with the user
\* extensions, given the same topic and left open.
NameDefaults ==
    /\ registered = [p \in Peers |-> UserExts]
    /\ advertised = [p \in Peers |-> sortedExtensions(UserExts)]

ConnDefaults ==
    /\ topic = [p \in Peers |-> "T1"]
    /\ lookup = [p \in Peers |-> "key"]
    /\ feedKey = [p \in Peers |-> "T1"]
    /\ emitted = [p \in Peers |-> <<>>]

CloseDefaults ==
    /\ resource = [p \in Peers |-> [status |-> "opened", next |-> 1]]
    /\ closeRuns = [p \in Peers |-> 0]
    /\ closeCalls = [p \in Peers |-> 0]

DataDefaults ==
    /\ userData = [r \in Runs |-> [p \in Peers |-> NoBuffer]]
    /\ remoteUserData = [r \in Runs |-> [p \in Peers |-> NoBuffer]]
    /\ context = [r \in Runs |-> [p \in Peers |-> EmptyContext]]
    /\ hello = [r \in Runs |-> [p \in Peers |-> NoHello]]
    /\ passed = [r \in Runs |-> [p \in Peers |-> EmptyObject]]

\* A session on which init was called once.
Booted ==
    [init |-> TRUE, results |-> <<"returned">>, extInits |-> 1,
     handshakeListeners |-> 1, eosListeners |-> 1]

BootDefaults == boot = [p \in Peers |-> Booted]

\* The names under which the objects given to setExtension are kept.
MapNames == {"buffer", "auth", InitExtName}

\* No object: what Map.get returns for a name that was never set.
NoObject == "undefined"

\* No extension has emitted an 'error' event, and the sessions are looked at
\* by the names of their extensions only.
ErrDefaults ==
    /\ extErrorCodes = [p \in Peers |-> [e \in ExtNames |-> {}]]
    /\ extensionMap = [p \in Peers |-> [n \in MapNames |-> NoObject]]

SessionDefaults ==
    NameDefaults /\ ConnDefaults /\ CloseDefaults /\ DataDefaults /\ BootDefaults /\ ErrDefaults

ZeroStats == [send |-> 0, receive |-> 0, error |-> 0]

(***************************************************************************)
(* The sessions from init(topic) on: both were given the same topic and    *)
(* their streams are piped into each other.                                *)
(***************************************************************************)
Fresh ==
    /\ pc = [p \in Peers |-> "await_handshake"]
    /\ idx = [p \in Peers |-> 1]
    /\ awaiting = [p \in Peers |-> 0]
    /\ caught = [p \in Peers |-> "none"]
    /\ remoteInit = [p \in Peers |-> "null"]
    /\ signal = [p \in Peers |-> "idle"]
    /\ destroyed = [p \in Peers |-> FALSE]
    /\ destroyErr = [p \in Peers |-> "none"]
    /\ eosDone = [p \in Peers |-> FALSE]
    /\ closeCount = [p \in Peers |-> [e \in ExtNames |-> 0]]
    /\ net = [p \in Peers |-> <<>>]
    /\ calls = <<>>
    /\ pending = [p \in Peers |-> [e \in ExtNames |-> {}]]
    /\ stats = [p \in Peers |-> [e \in ExtNames |-> ZeroStats]]
    /\ extErrors = [p \in Peers |-> [e \in ExtNames |-> 0]]
    /\ running = [p \in Peers |-> {}]
    /\ handled = [p \in Peers |-> {}]
    /\ wlog = [p \in Peers |-> <<>>]
    /\ log = [p \in Peers |-> <<>>]
    /\ initFails \in [Peers -> 0..NumExts]

Init == Fresh /\ SessionDefaults

Next ==
    \/ \E p \in Peers :
          \/ TransportHandshake(p)
          \/ InitLoop(p)
          \/ onInit(p)
          \/ validate(p)
          \/ validateResume(p)
          \/ signalResume(p)
          \/ HandshakeLoop(p)
          \/ HandshakeCb(p)
          \/ OnHandshakeLoop(p)
          \/ invalidate(p)
          \/ invalidateResume(p)
          \/ Finally(p)
          \/ onMessage(p)
          \/ StreamDestroy(p)
          \/ Pump(p)
          \/ Eos(p)
    \/ \E id \in DOMAIN calls : TimerFire(id)

Spec == Init /\ [][Next]_vars

(***************************************************************************)
(* The request/response runtime between two sessions that have completed   *)
(* the handshake: the state Spec reaches when both init gates passed, the  *)
(* gate's two 'valid' sends were answered and their timers have run out.   *)
(***************************************************************************)
GateCall(p) ==
    [NewCall(p, InitExtName, "valid", FALSE) EXCEPT
        !.state = "resolved", !.settled = 1, !.done = TRUE,
        !.first = "response", !.timer = "fired"]

GateId(p) == IF p = "A" THEN 1 ELSE 2

HandshakeLog ==
    [i \in 1..(2 * NumExts) |->
        IF i % 2 = 1 THEN <<"onInit", UserExts[(i + 1) \div 2]>>
                     ELSE <<"onInit.done", UserExts[i \div 2]>>]
    \o [i \in 1..(2 * Len(Handshakes)) |->
        IF i % 2 = 1 THEN <<"handshake.cb", Handshakes[(i + 1) \div 2]>>
                     ELSE <<"handshake.cb.done", Handshakes[i \div 2]>>]
    \o [i \in 1..NumExts |-> <<"onHandshake", UserExts[i]>>]
    \o << <<"emit", "handshake">> >>

Established ==
    /\ pc = [p \in Peers |-> "running"]
    /\ idx = [p \in Peers |-> NumExts + 1]
    /\ awaiting = [p \in Peers |-> 0]
    /\ caught = [p \in Peers |-> "none"]
    /\ remoteInit = [p \in Peers |-> "true"]
    /\ signal = [p \in Peers |-> "idle"]
    /\ destroyed = [p \in Peers |-> FALSE]
    /\ destroyErr = [p \in Peers |-> "none"]
    /\ eosDone = [p \in Peers |-> FALSE]
    /\ closeCount = [p \in Peers |-> [e \in ExtNames |-> 0]]
    /\ net = [p \in Peers |-> <<>>]
    /\ calls = <<GateCall("A"), GateCall("B")>>
    /\ pending = [p \in Peers |-> [e \in ExtNames |-> {}]]
    /\ stats = [p \in Peers |-> [e \in ExtNames |->
                   IF e = InitExtName THEN [send |-> 1, receive |-> 1, error |-> 0]
                   ELSE ZeroStats]]
    /\ extErrors = [p \in Peers |-> [e \in ExtNames |-> 0]]
    /\ running = [p \in Peers |-> {}]
    /\ handled = [p \in Peers |-> {GateId(Other(p))}]
    /\ wlog = [p \in Peers |->
                 <<Request(InitExtName, GateId(p), "valid", FALSE),
                   Response(InitExtName, GateId(Other(p)), Undefined)>>]
    /\ log = [p \in Peers |-> HandshakeLog]
    /\ initFails = [p \in Peers |-> 0]

InitRR == Established /\ SessionDefaults

NextRR ==
    \/ \E p \in Peers :
          \/ \E req \in UserRequests : UserSend(p, req)
          \/ onMessage(p)
          \/ HandlerSettle(p)
          \/ StreamDestroy(p)
          \/ Pump(p)
          \/ Eos(p)
    \/ \E id \in DOMAIN calls : TimerFire(id)

SpecRR == InitRR /\ [][NextRR]_vars

(***************************************************************************)
(* Properties of the request/response runtime (SpecRR).                    *)
(***************************************************************************)
CallIds == DOMAIN calls

\* The frames peer p wrote that carry id.
FramesWith(p, id) == {k \in DOMAIN wlog[p] : wlog[p][k].id = id}

\* The message handler of peer p is still working on request id.
Suspended(p, id) == \E inv \in running[p] : inv.id = id

C1_Outcome ==
    \A i \in CallIds :
        ~calls[i].oneway =>
            /\ calls[i].settled = (IF calls[i].first = "none" THEN 0 ELSE 1)
            /\ (calls[i].state = "pending") <=> (calls[i].first = "none")
            /\ calls[i].first = "response" =>
                   calls[i].state = "resolved" /\ calls[i].value.code = ""
            /\ calls[i].first = "error" =>
                   /\ calls[i].state = "rejected"
                   /\ calls[i].value.code \notin {"", "ERR_REQUEST_TIMEOUT"}
            /\ calls[i].first = "timeout" =>
                   /\ calls[i].state = "rejected"
                   /\ calls[i].value.code = "ERR_REQUEST_TIMEOUT"

C1_Stable ==
    \A i \in CallIds :
        calls[i].state # "pending" =>
            /\ calls'[i].state = calls[i].state
            /\ calls'[i].value = calls[i].value
            /\ calls'[i].settled = calls[i].settled

\* C1: every non-oneway send has at most one outcome, the one of whichever
\* of response, error response and timer came first (resolved with the
\* response, rejected with the remote error, rejected with
\* ERR_REQUEST_TIMEOUT), and once it has an outcome no later response or
\* timer changes it or delivers a second one.
C1_ExactlyOneOutcome == []C1_Outcome /\ [][C1_Stable]_vars

\* A response and the timer both came for one send, the timer first.
C1_Witness ==
    \E i \in CallIds :
        /\ calls[i].ext = "buffer" /\ ~calls[i].oneway
        /\ calls[i].first = "timeout" /\ calls[i].done /\ calls[i].timer = "fired"

\* C6: a send whose timer fires before any frame with its id has come is
\* rejected with ERR_REQUEST_TIMEOUT; a response that comes later never
\* resolves it and is not handed to the sender's message handler.
C6_TimeoutThenDrop ==
    \A i \in CallIds :
        (~calls[i].oneway /\ calls[i].first = "timeout") =>
            /\ calls[i].state = "rejected"
            /\ calls[i].value = ErrVal(TimeoutError)
            /\ i \notin handled[calls[i].peer]
            /\ ~Suspended(calls[i].peer, i)

\* The late response has arrived (the callback ran) after the timeout.
C6_Witness ==
    \E i \in CallIds :
        /\ calls[i].ext = "buffer" /\ calls[i].first = "timeout"
        /\ calls[i].done /\ calls[i].data = "ping"
        /\ stats[calls[i].peer]["buffer"].receive = 1

\* C7: for a non-oneway request whose handler throws, the receiver writes
\* exactly one frame with the request's id, an error frame whose code is
\* the ProtocolError's code or else ERR_SYSTEM and whose message is the
\* error's message; the send never resolves, and it is rejected with that
\* code and message when the frame arrives before the timer fires.
C7_HandlerThrows ==
    \A i \in CallIds :
        LET c == calls[i]
            h == messageHandler(c.data)
            q == Other(c.peer)
            code == IF h.isProtocolError THEN h.code ELSE "ERR_SYSTEM"
        IN  (c.ext = "buffer" /\ ~c.oneway /\ h.throws) =>
                /\ Cardinality(FramesWith(q, i)) <= 1
                /\ (i \in handled[q] /\ ~Suspended(q, i)) =>
                       Cardinality(FramesWith(q, i)) = 1
                /\ \A k \in FramesWith(q, i) :
                       /\ wlog[q][k].error = [code |-> code, message |-> h.message]
                       /\ wlog[q][k].ext = c.ext
                /\ c.state # "resolved"
                /\ c.first = "error" =>
                       /\ c.state = "rejected"
                       /\ c.value.code = code
                       /\ c.value.message = h.message

\* A plain Error and a ProtocolError have both come back to the sender.
C7_Witness ==
    \E i, j \in CallIds :
        /\ calls[i].data = "crash" /\ calls[i].first = "error"
        /\ calls[i].value.code = "ERR_SYSTEM"
        /\ calls[j].data = "deny" /\ calls[j].first = "error"
        /\ calls[j].value.code = "ERR_DENIED"

\* C8: a oneway send writes one frame, is resolved with undefined from the
\* start, has no entry in the pending table and no timer, and nothing that
\* happens later (a frame, a timer, the close) settles it again.
C8_Oneway ==
    \A i \in CallIds :
        calls[i].oneway =>
            /\ Cardinality(FramesWith(calls[i].peer, i)) = 1
            /\ calls[i].state = "resolved"
            /\ calls[i].value = Val(Undefined)
            /\ calls[i].settled = 1
            /\ calls[i].timer = "none"
            /\ ~calls[i].done /\ ~calls[i].expired
            /\ \A p \in Peers : \A e \in ExtNames : i \notin pending[p][e]

\* A oneway request was handled by the receiver and the sender has closed since.
C8_Witness ==
    \E i \in CallIds :
        /\ calls[i].oneway /\ calls[i].ext = "buffer"
        /\ i \in handled[Other(calls[i].peer)]
        /\ ~Suspended(Other(calls[i].peer), i)
        /\ eosDone[calls[i].peer]

\* C9: the receiver of a oneway request hands the request's data to its
\* message handler and never writes a frame with the request's id, whether
\* the handler returns or throws.
C9_OnewayNoResponse ==
    \A i \in CallIds :
        calls[i].oneway =>
            /\ FramesWith(Other(calls[i].peer), i) = {}
            /\ \A inv \in running[Other(calls[i].peer)] :
                   inv.id = i => (inv.data = calls[i].data /\ inv.oneway)

\* Two oneway requests were handled to the end, one handler returned and one threw.
C9_Witness ==
    \E i, j \in CallIds :
        /\ calls[i].oneway /\ calls[i].data = "crash"
        /\ calls[j].oneway /\ calls[j].data = "ping"
        /\ {i, j} \subseteq handled["B"]
        /\ running["B"] = {}

\* C10: the pending table holds the id of a call exactly from its
\* non-oneway send until the first of response, error response, timer and
\* close of the extension.
C10_PendingExact ==
    \A i \in CallIds :
        LET c == calls[i]
        IN  (i \in pending[c.peer][c.ext]) <=>
                (~c.oneway /\ c.first = "none" /\ closeCount[c.peer][c.ext] = 0)

(***************************************************************************)
(* Properties of the init gate (Spec).                                     *)
(***************************************************************************)
\* A handshake callback, an onHandshake hook or the 'handshake' event has
\* started on peer p.
HandshakeRan(p) ==
    \E k \in DOMAIN log[p] :
        \/ log[p][k][1] \in {"handshake.cb", "onHandshake"}
        \/ log[p][k] = <<"emit", "handshake">>

\* Peer p has written the gate's token data.
TokenSent(p, data) ==
    \E k \in DOMAIN wlog[p] :
        /\ wlog[p][k].ext = InitExtName
        /\ wlog[p][k].data = data
        /\ wlog[p][k].id \in DOMAIN calls
        /\ calls[wlog[p][k].id].peer = p

\* The onInit hook of every user extension of peer p has completed.
AllInitDone(p) ==
    \A i \in 1..NumExts :
        \E k \in DOMAIN log[p] : log[p][k] = <<"onInit.done", UserExts[i]>>

C3_InitBeforeHandshake ==
    \A p \in Peers :
        HandshakeRan(p) =>
            \A q \in Peers : AllInitDone(q) /\ pc[q] \notin {"init_loop", "onInit"}

\* A peer has started its handshake callbacks after its remote finished
\* onInit, while the remote itself is still inside the gate.
C3_Witness ==
    \E p \in Peers :
        /\ HandshakeRan(p)
        /\ pc[Other(p)] \in {"validate_await", "signal_wait"}
        /\ AllInitDone(Other(p))

(***************************************************************************)
(* Progress of the init gate. Node's event loop runs every callback that   *)
(* is ready (a resumed async function, a delivered frame, a stream event,  *)
(* a due timer), so each step below is weakly fair. A timer is modelled    *)
(* as firing in time: not while the frame it waits for, or the request     *)
(* that frame answers, is still on its way.                                *)
(***************************************************************************)
InFlight(id) ==
    \/ \E p \in Peers : \E k \in DOMAIN net[p] : net[p][k].id = id
    \/ \E p \in Peers : Suspended(p, id)

TimelyTimerFire(id) == ~InFlight(id) /\ TimerFire(id)

TimerStep == \E id \in DOMAIN calls : TimelyTimerFire(id)

\* The steps of the listener of p and of its extensions when every hook succeeds.
GateStep(p) ==
    \/ TransportHandshake(p)
    \/ InitLoop(p)
    \/ onInit(p)
    \/ validate(p)
    \/ validateResume(p)
    \/ signalResume(p)
    \/ HandshakeLoop(p)
    \/ HandshakeCb(p)
    \/ OnHandshakeLoop(p)
    \/ onMessage(p)

\* The steps of the catch block.
AbortStep(p) ==
    \/ invalidate(p)
    \/ invalidateResume(p)
    \/ Finally(p)

InitValid == Init /\ initFails = [p \in Peers |-> 0]

NextValid == (\E p \in Peers : GateStep(p)) \/ TimerStep

\* Both sessions' hooks succeed, the streams stay open, timers fire in time.
SpecValid ==
    /\ InitValid
    /\ [][NextValid]_vars
    /\ \A p \in Peers : WF_vars(GateStep(p))
    /\ WF_vars(TimerStep)

NextAbort ==
    \/ \E p \in Peers : GateStep(p) \/ AbortStep(p) \/ Pump(p) \/ Eos(p)
    \/ TimerStep

\* Any of the hooks may throw; the streams are piped into each other.
SpecAbort ==
    /\ Init
    /\ [][NextAbort]_vars
    /\ \A p \in Peers : /\ WF_vars(GateStep(p))
                        /\ WF_vars(AbortStep(p))
                        /\ WF_vars(Pump(p))
                        /\ WF_vars(Eos(p))
    /\ WF_vars(TimerStep)

\* C4: when every onInit hook succeeds, the streams stay open and the
\* gate's sends are answered in time, both peers eventually run their
\* handshake callbacks and onHandshake hooks in order and emit 'handshake':
\* the two concurrent validate (continue) calls do not block each other.
C4_BothHandshake ==
    <>(\A p \in Peers : pc[p] = "running" /\ log[p] = HandshakeLog)

\* Both sessions are through the gate and have emitted 'handshake'.
C4_Witness ==
    \A p \in Peers :
        /\ pc[p] = "running"
        /\ remoteInit[p] = "true"
        /\ log[p][Len(log[p])] = <<"emit", "handshake">>
        /\ \A i \in DOMAIN calls : calls[i].state = "resolved"

DestroyTokenHandled(p) ==
    \E i \in handled[p] : calls[i].ext = InitExtName /\ calls[i].data = "destroy"

C5_Errors ==
    \A p \in Peers :
        /\ destroyErr[p] \in {"none", "ERR_ON_HANDSHAKE", "invalid peer"}
        /\ destroyErr[p] # "none" => destroyed[p]
        /\ DestroyTokenHandled(p) => destroyed[p] /\ destroyErr[p] = "invalid peer"
        /\ destroyErr[p] = "ERR_ON_HANDSHAKE" => pc[p] = "aborted"
        /\ pc[p] = "aborted" => destroyed[p]

Closed(p) == eosDone[p]

\* The sends peer p makes in this step.
NewCallsOf(p) == {i \in DOMAIN calls' \ DOMAIN calls : calls'[i].peer = p}

C11_ClosedStep ==
    \A p \in Peers :
        Closed(p) =>
            /\ handled'[p] = handled[p]
            /\ running'[p] = running[p]
            /\ wlog'[p] = wlog[p]
            /\ \A i \in NewCallsOf(p) : calls'[i].state = "rejected"

\* C11: once a session has closed, no message handler of its extensions
\* is invoked or resumed, and every send it makes from then on fails
\* without writing a frame.
C11_NothingAfterClose == [][C11_ClosedStep]_vars

C12_CloseStep ==
    \A p \in Peers :
        (~Closed(p) /\ eosDone'[p]) =>
            /\ \A e \in ExtNames : pending'[p][e] = {}
            /\ \A i \in CallIds :
                   (calls[i].peer = p /\ calls[i].state = "pending") =>
                       /\ calls'[i].state = "rejected"
                       /\ calls'[i].value.code = "ERR_CLOSE"

\* C12: the step that closes the extensions of a session rejects every
\* send of theirs that is still outstanding with ERR_CLOSE and leaves
\* their pending tables empty.
C12_CloseRejectsOutstanding == [][C12_CloseStep]_vars

(***************************************************************************)
(* Order of dispatch.                                                      *)
(***************************************************************************)
\* Frame f, on its way to p, is a request of the remote peer.
IsRequestFor(p, f) == f.id \in CallIds /\ calls[f.id].peer = Other(p)

\* C16: on every extension the message handler is invoked for requests in
\* the order in which they arrived: a request that is still on its way was
\* sent after every request of that extension already given to the
\* handler, also while earlier invocations are suspended at an await.
C16_DispatchInArrivalOrder ==
    \A p \in Peers :
        \A k \in DOMAIN net[p] :
            IsRequestFor(p, net[p][k]) =>
                /\ \A i \in handled[p] : calls[i].ext = net[p][k].ext => i < net[p][k].id
                /\ \A j \in 1..(k - 1) :
                       (IsRequestFor(p, net[p][j]) /\ net[p][j].ext = net[p][k].ext) =>
                           net[p][j].id < net[p][k].id

\* Two requests were given to B's handler in the order of their arrival,
\* the second while the first invocation was still suspended.
C16_Witness ==
    \E inv1, inv2 \in running["B"] :
        /\ inv1.id < inv2.id
        /\ inv1.ext = "buffer" /\ inv2.ext = "buffer"
        /\ {inv1.id, inv2.id} \subseteq handled["B"]

(***************************************************************************)
(* Registration of extensions and the advertised names (SpecNames).        *)
(***************************************************************************)
coreVars == <<pc, idx, awaiting, caught, remoteInit, signal, destroyed, destroyErr,
              eosDone, closeCount, net, calls, pending, stats, extErrors, running,
              handled, wlog, log, initFails>>

\* Names of user extensions.
NameUniverse == {"buffer", "buf", "auth", "Zeta"}

MaxExts == 3         \* extensions registered with one session

Range(seq) == {seq[k] : k \in DOMAIN seq}

\* Protocol.setExtension(extension), before init.
setExtension(p, name) ==
    /\ advertised[p] = <<>>
    /\ Len(MapSet(registered[p], name)) <= MaxExts
    /\ registered' = [registered EXCEPT ![p] = MapSet(@, name)]
    /\ UNCHANGED <<coreVars, advertised, connVars, closeVars, dataVars, bootVars, errVars, mapVars>>

\* The part of Protocol.init that fills stream.extensions.
initExtensions(p) ==
    /\ advertised[p] = <<>>
    /\ advertised' = [advertised EXCEPT ![p] = sortedExtensions(registered[p])]
    /\ UNCHANGED <<coreVars, registered, connVars, closeVars, dataVars, bootVars, errVars, mapVars>>

InitNames ==
    /\ Fresh /\ initFails = [p \in Peers |-> 0]
    /\ registered = [p \in Peers |-> <<>>]
    /\ advertised = [p \in Peers |-> <<>>]
    /\ ConnDefaults /\ CloseDefaults /\ DataDefaults /\ BootDefaults /\ ErrDefaults

NextNames ==
    \E p \in Peers :
        \/ \E name \in NameUniverse : setExtension(p, name)
        \/ initExtensions(p)

SpecNames == InitNames /\ [][NextNames]_vars

\* C15: two sessions that were given the same set of extension names, in
\* whatever orders, advertise equal lists: the names and dxos.protocol.init
\* in ascending order of their code units.
C15_SameAdvertisedNames ==
    (advertised["A"] # <<>> /\ advertised["B"] # <<>>
        /\ Range(registered["A"]) = Range(registered["B"])) =>
            /\ advertised["A"] = advertised["B"]
            /\ Range(advertised["A"]) = Range(registered["A"]) \cup {InitExtName}
            /\ Len(advertised["A"]) = Len(registered["A"]) + 1
            /\ \A k \in 1..(Len(advertised["A"]) - 1) :
                   NameLess(advertised["A"][k], advertised["A"][k + 1])

\* Both sessions advertised after registering the same three names in
\* different orders, among them an upper-case name and a prefix of another.
C15_Witness ==
    /\ advertised["A"] # <<>> /\ advertised["B"] # <<>>
    /\ registered["A"] # registered["B"]
    /\ Range(registered["A"]) = {"buffer", "buf", "Zeta"}
    /\ Range(registered["B"]) = {"buffer", "buf", "Zeta"}
    /\ advertised["A"] = <<"Zeta", "buf", "buffer", "dxos.protocol.init">>

(***************************************************************************)
(* Protocol.close of the session that is a nanoresource (SpecClose).       *)
(***************************************************************************)
MaxCloses == 2       \* calls of close() by the owner of one session

\* The order in which _close closes the extensions.
CloseOrder == <<InitExtName>> \o UserExts

ShouldRunClose_Always(res) == TRUE

\* NanoresourcePromise.close(): _close runs only for a resource that is
\* open and not yet closing.
ShouldRunClose(res) == res.status = "opened"

\* A call of close(): the first one makes the resource closing.
CloseCall(res) == IF ShouldRunClose(res) THEN [res EXCEPT !.status = "closing"] ELSE res

\* The owner of the session calls close().
UserClose(p) ==
    /\ closeCalls[p] < MaxCloses
    /\ closeCalls' = [closeCalls EXCEPT ![p] = @ + 1]
    /\ resource' = [resource EXCEPT ![p] = CloseCall(@)]
    /\ closeRuns' = [closeRuns EXCEPT ![p] = IF ShouldRunClose(resource[p]) THEN @ + 1 ELSE @]
    /\ UNCHANGED <<coreVars, nameVars, connVars, dataVars, bootVars, errVars, mapVars>>

\* The end-of-stream callback of _open calls close().
EosClose(p) ==
    /\ destroyed[p]
    /\ ~eosDone[p]
    /\ eosDone' = [eosDone EXCEPT ![p] = TRUE]
    /\ resource' = [resource EXCEPT ![p] = CloseCall(@)]
    /\ closeRuns' = [closeRuns EXCEPT ![p] = IF ShouldRunClose(resource[p]) THEN @ + 1 ELSE @]
    /\ UNCHANGED <<lifeVars, gateVars, destroyed, destroyErr, closeCount, runtimeVars,
                   initFails, nameVars, connVars, closeCalls, dataVars, bootVars, errVars, mapVars>>

\* _close, first statement: this._stream.destroy().
CloseDestroy(p) ==
    /\ resource[p].status = "closing"
    /\ resource' = [resource EXCEPT ![p] = [status |-> "closing_extensions", next |-> 1]]
    /\ destroyed' = [destroyed EXCEPT ![p] = TRUE]
    /\ net' = [net EXCEPT ![p] = <<>>]
    /\ UNCHANGED <<lifeVars, gateVars, destroyErr, eosDone, closeCount, calls, pending,
                   stats, extErrors, running, handled, wlog, initFails, nameVars,
                   connVars, closeRuns, closeCalls, dataVars, bootVars, errVars, mapVars>>

\* _close, the awaited close() of the next extension, which runs the
\* extension's close handler; after the last one the resource is closed.
CloseExtension(p) ==
    /\ resource[p].status = "closing_extensions"
    /\ LET k == resource[p].next
       IN  IF k <= Len(CloseOrder)
           THEN /\ closeCount' = [closeCount EXCEPT ![p][CloseOrder[k]] = @ + 1]
                /\ resource' = [resource EXCEPT ![p].next = k + 1]
           ELSE /\ resource' = [resource EXCEPT ![p].status = "closed"]
                /\ UNCHANGED closeCount
    /\ UNCHANGED <<lifeVars, gateVars, destroyed, destroyErr, eosDone, runtimeVars,
                   initFails, nameVars, connVars, closeRuns, closeCalls, dataVars, bootVars, errVars, mapVars>>

NextClose ==
    \E p \in Peers :
        \/ UserClose(p)
        \/ EosClose(p)
        \/ CloseDestroy(p)
        \/ CloseExtension(p)
        \/ StreamDestroy(p)
        \/ Pump(p)

SpecClose == InitRR /\ [][NextClose]_vars

C13_Once ==
    \A p \in Peers :
        /\ closeRuns[p] <= 1
        /\ \A e \in ExtNames : closeCount[p][e] <= 1
        /\ resource[p].status = "closed" =>
               destroyed[p] /\ \A e \in ExtNames : closeCount[p][e] = 1

C13_ClosedStep ==
    \A p \in Peers :
        resource[p].status = "closed" =>
            /\ resource'[p] = resource[p]
            /\ closeRuns'[p] = closeRuns[p]
            /\ closeCount'[p] = closeCount[p]
            /\ destroyed'[p] = destroyed[p]

ForeignExt == "auth"

\* A frame the remote side wrote on that extension.
ForeignFrame(oneway) == Request(ForeignExt, 0, "hello", oneway)

\* The remote side of p writes a frame on the extension p does not have.
ForeignWrite(p) ==
    /\ ~destroyed[p]
    /\ \A k \in DOMAIN net[p] : net[p][k].ext # ForeignExt
    /\ \E oneway \in BOOLEAN : net' = Write(net, Other(p), ForeignFrame(oneway))
    /\ UNCHANGED <<lifeVars, gateVars, streamVars, calls, pending, stats, extErrors,
                   running, handled, wlog, initFails, sessionVars>>

\* _extensionMap.get(name) finds an extension, or name is the init extension.
HasExtension(p, name) == name = InitExtName \/ name \in Range(registered[p])

MissingExtension_EmitOnly(p) ==
    /\ emitted' = [emitted EXCEPT ![p] = Append(@, "ERR_PROTOCOL_EXTENSION_MISSING")]
    /\ net' = [net EXCEPT ![p] = Tail(@)]
    /\ UNCHANGED <<lifeVars, gateVars, streamVars, calls, pending, stats, extErrors,
                   running, handled, wlog, initFails, nameVars, topic, lookup, feedKey,
                   closeVars, dataVars, bootVars, errVars, mapVars>>

\* _extensionHandler for a name without extension: emit the error and
\* destroy the stream.
MissingExtension(p) ==
    /\ emitted' = [emitted EXCEPT ![p] = Append(@, "ERR_PROTOCOL_EXTENSION_MISSING")]
    /\ destroyed' = [destroyed EXCEPT ![p] = TRUE]
    /\ net' = [net EXCEPT ![p] = <<>>]
    /\ UNCHANGED <<lifeVars, gateVars, destroyErr, eosDone, closeCount, calls, pending,
                   stats, extErrors, running, handled, wlog, initFails, nameVars, topic,
                   lookup, feedKey, closeVars, dataVars, bootVars, errVars, mapVars>>

\* The feed's 'extension' event: _extensionHandler(name, message).
extensionHandler(p) ==
    /\ ~destroyed[p]
    /\ net[p] # <<>>
    /\ IF HasExtension(p, Head(net[p]).ext) THEN onMessage(p) ELSE MissingExtension(p)

NextMissing ==
    \E p \in Peers :
        \/ ForeignWrite(p)
        \/ extensionHandler(p)
        \/ \E req \in UserRequests : UserSend(p, req)
        \/ HandlerSettle(p)
        \/ Pump(p)

SpecMissing == InitRR /\ [][NextMissing]_vars

\* The next frame for p names an extension p does not have.
ForeignArrives(p) ==
    /\ ~destroyed[p] /\ ~destroyed[Other(p)]
    /\ net[p] # <<>>
    /\ ~HasExtension(p, Head(net[p]).ext)

C14_MissingStep ==
    \A p \in Peers :
        (ForeignArrives(p) /\ Len(net'[p]) < Len(net[p])) =>
            /\ emitted'[p] = Append(emitted[p], "ERR_PROTOCOL_EXTENSION_MISSING")
            /\ destroyed'[p]
            /\ handled'[p] = handled[p]
            /\ running'[p] = running[p]
            /\ stats'[p] = stats[p] /\ extErrors'[p] = extErrors[p]
            /\ wlog'[p] = wlog[p]

C14_NeverHandled ==
    \A p \in Peers :
        /\ \A inv \in running[p] : inv.ext # ForeignExt
        /\ 0 \notin handled[p]
        /\ emitted[p] # <<>> => destroyed[p]
        /\ Len(emitted[p]) <= 1

\* C14: when a frame arrives whose extension name the session does not
\* have, the session emits ERR_PROTOCOL_EXTENSION_MISSING and destroys its
\* stream in that step, and no extension's onMessage sees the frame: no
\* handler runs, no counter moves, nothing is written back.
C14_MissingExtensionFatal == []C14_NeverHandled /\ [][C14_MissingStep]_vars

\* A session was destroyed by such a frame while a request of the remote
\* side was being handled by it.
C14_Witness ==
    \E p \in Peers :
        /\ emitted[p] = <<"ERR_PROTOCOL_EXTENSION_MISSING">>
        /\ destroyed[p]
        /\ running[p] # {}

(***************************************************************************)
(* Opening the first feed channel (SpecConnect): _openConnection of the    *)
(* session that is a nanoresource. A session given a topic opens the feed  *)
(* itself; a session without one waits for the remote side's first feed.   *)
(***************************************************************************)
NoTopic == "none"

Topics == {"T1", "T2"}

\* What the user's discoveryToPublicKey does when it is called.
LookupOutcomes == {"key", "nothing", "throws"}

\* ERR_PROTOCOL_CONNECTION_INVALID with the message of the throw in openFeed,
\* and with the message of an error the mapping threw.
KeyNotFound == "ERR_PROTOCOL_CONNECTION_INVALID: key not found"

LookupThrew == "ERR_PROTOCOL_CONNECTION_INVALID: lookup failed"

IsConnectionInvalid(code) == code \in {KeyNotFound, LookupThrew}

discoveryToPublicKey_Constant(dk) == "T1"

\* The default mapping of the constructor: key => key.
discoveryToPublicKey(dk) == dk

\* openFeed has run on the session: it opened the feed or emitted its error.
OpenFeedRan(p) == feedKey[p] # NoTopic \/ emitted[p] # <<>>

openFeed_EmitOnly(p, dk) ==
    /\ IF lookup[p] = "key"
       THEN /\ feedKey' = [feedKey EXCEPT ![p] = discoveryToPublicKey(dk)]
            /\ UNCHANGED emitted
       ELSE /\ emitted' = [emitted EXCEPT ![p] = Append(@, "Error: Public key not found")]
            /\ UNCHANGED feedKey
    /\ UNCHANGED <<coreVars, nameVars, topic, lookup, closeVars, dataVars, bootVars, errVars, mapVars>>

\* openFeed(discoveryKey): with a key the feed channel is opened and the
\* extension handler attached to it; without one, or when the mapping
\* throws, the session emits ERR_PROTOCOL_CONNECTION_INVALID and destroys
\* the stream.
openFeed(p, dk) ==
    /\ IF lookup[p] = "key"
       THEN /\ feedKey' = [feedKey EXCEPT ![p] = discoveryToPublicKey(dk)]
            /\ UNCHANGED <<emitted, destroyed, net, bootVars, errVars, mapVars>>
       ELSE /\ emitted' = [emitted EXCEPT ![p] =
                              Append(@, IF lookup[p] = "nothing" THEN KeyNotFound
                                                                 ELSE LookupThrew)]
            /\ destroyed' = [destroyed EXCEPT ![p] = TRUE]
            /\ net' = [net EXCEPT ![p] = <<>>]
            /\ UNCHANGED feedKey
    /\ UNCHANGED <<lifeVars, gateVars, destroyErr, eosDone, closeCount, calls, pending,
                   stats, extErrors, running, handled, wlog, initFails, nameVars, topic,
                   lookup, closeVars, dataVars, bootVars, errVars, mapVars>>

\* _openConnection of a session that was given a topic.
OpenOwn(p) ==
    /\ topic[p] # NoTopic
    /\ ~OpenFeedRan(p)
    /\ ~destroyed[p]
    /\ openFeed(p, topic[p])

\* The 'feed' event of a session without topic, once: the remote side
\* opened its first feed.
OnFeed(p) ==
    /\ topic[p] = NoTopic
    /\ ~OpenFeedRan(p)
    /\ ~destroyed[p]
    /\ feedKey[Other(p)] # NoTopic
    /\ openFeed(p, feedKey[Other(p)])

\* Both sides opened the same first feed.
SameFeed == feedKey["A"] # NoTopic /\ feedKey["A"] = feedKey["B"]

\* Both sides opened a first feed, and not the same one.
Mismatch ==
    /\ feedKey["A"] # NoTopic /\ feedKey["B"] # NoTopic
    /\ feedKey["A"] # feedKey["B"]

\* The transport completes its handshake over a shared first feed.
ConnHandshake(p) == SameFeed /\ TransportHandshake(p)

\* The transport aborts a stream whose sides did not share the first feed.
TransportAbort(p) == Mismatch /\ StreamDestroy(p)

\* The owner of a session sends a request as soon as its feed is open.
EarlySend(p) ==
    /\ feedKey[p] # NoTopic
    /\ ~destroyed[p]
    /\ UserSends < MaxSends
    /\ \E req \in UserRequests : send(p, "buffer", req[1], req[2])
    /\ UNCHANGED <<lifeVars, gateVars, streamVars, extErrors, running, handled,
                   initFails, sessionVars>>

\* The 'extension' event of the feed channel, which exists once openFeed
\* attached the handler to it.
Dispatch(p) == feedKey[p] # NoTopic /\ extensionHandler(p)

InitConnect ==
    /\ Fresh
    /\ initFails = [p \in Peers |-> 0]
    /\ NameDefaults /\ CloseDefaults /\ DataDefaults /\ BootDefaults /\ ErrDefaults
    /\ topic \in {[p \in Peers |-> IF p = "A" THEN "T1" ELSE t] :
                     t \in Topics \cup {NoTopic}}
    /\ lookup \in [Peers -> LookupOutcomes]
    /\ feedKey = [p \in Peers |-> NoTopic]
    /\ emitted = [p \in Peers |-> <<>>]

NextConnect ==
    \E p \in Peers :
        \/ OpenOwn(p)
        \/ OnFeed(p)
        \/ ConnHandshake(p)
        \/ TransportAbort(p)
        \/ EarlySend(p)
        \/ Dispatch(p)
        \/ HandlerSettle(p)
        \/ Pump(p)
        \/ EosClose(p)
        \/ CloseDestroy(p)
        \/ CloseExtension(p)

SpecConnect == InitConnect /\ [][NextConnect]_vars

\* The session took no extension frame.
NothingDispatched(p) ==
    /\ handled[p] = {} /\ running[p] = {}
    /\ \A e \in ExtNames : stats[p][e].receive = 0 /\ extErrors[p][e] = 0

C17_OpenStep ==
    \A p \in Peers :
        (topic[p] = NoTopic /\ feedKey'[p] # feedKey[p]) =>
            /\ lookup[p] = "key"
            /\ feedKey[p] = NoTopic /\ emitted[p] = <<>>
            /\ feedKey[Other(p)] # NoTopic
            /\ feedKey'[p] = feedKey[Other(p)]

C17_KeyOrFail ==
    \A p \in Peers :
        topic[p] = NoTopic =>
            /\ feedKey[p] # NoTopic => lookup[p] = "key" /\ emitted[p] = <<>>
            /\ (lookup[p] = "nothing" /\ OpenFeedRan(p)) =>
                   /\ emitted[p] = <<KeyNotFound>>
                   /\ destroyed[p]
                   /\ feedKey[p] = NoTopic
            /\ lookup[p] # "key" => feedKey[p] = NoTopic /\ NothingDispatched(p)

\* C17: a session without topic opens its feed channel only in the step
\* that handles the remote side's first feed, and only if
\* discoveryToPublicKey returns a key; if the mapping returns nothing the
\* session emits ERR_PROTOCOL_CONNECTION_INVALID('key not found') once and
\* destroys its stream, its channel is never opened and no extension frame
\* is ever dispatched on it.
C17_FeedNeedsKey == []C17_KeyOrFail /\ [][C17_OpenStep]_vars

\* The session without topic failed on 'key not found' after the remote
\* side had already written a request on its open feed.
C17_Witness ==
    /\ topic["B"] = NoTopic /\ lookup["B"] = "nothing"
    /\ emitted["B"] = <<KeyNotFound>> /\ destroyed["B"]
    /\ feedKey["A"] = "T1"
    /\ wlog["A"] # <<>>

\* The two sessions were given different topics and keep the default
\* mapping, which returns the discovery key itself.
DifferentTopics ==
    /\ topic["A"] # NoTopic /\ topic["B"] # NoTopic
    /\ topic["A"] # topic["B"]
    /\ \A p \in Peers : lookup[p] = "key"

\* The session's close() has finished.
SessionClosed(p) == resource[p].status = "closed"

\* C18 as stated: with different topics no session starts its handshake
\* listener, and a session that has closed has emitted
\* ERR_PROTOCOL_CONNECTION_INVALID.
C18_MismatchEmitsInvalid ==
    DifferentTopics =>
        \A p \in Peers :
            /\ pc[p] = "await_handshake"
            /\ SessionClosed(p) =>
                   \E k \in DOMAIN emitted[p] : IsConnectionInvalid(emitted[p][k])

\* C18, as the code has it: with different topics and the identity mapping
\* each session opens its own feed, so no session ever starts its handshake
\* listener, runs a handshake callback or emits 'handshake', and no session
\* emits any error; a stream is destroyed only after the transport found
\* the two first feeds different.
C18_MismatchNoHandshake ==
    DifferentTopics =>
        \A p \in Peers :
            /\ pc[p] = "await_handshake" /\ log[p] = <<>>
            /\ emitted[p] = <<>>
            /\ destroyed[p] => Mismatch
            /\ feedKey[p] \in {NoTopic, topic[p]}

\* Both sessions closed after the transport aborted the mismatched
\* streams, and neither emitted an error.
C18_Witness ==
    /\ DifferentTopics /\ Mismatch
    /\ \A p \in Peers : SessionClosed(p) /\ destroyed[p] /\ emitted[p] = <<>>

(***************************************************************************)
(* Session data and context (SpecSession). Two runs are driven by the same *)
(* calls and events; only the values the owner of A gives to setContext    *)
(* may differ between them.                                                *)
(***************************************************************************)
\* The transport of p has sent its handshake message.
HelloSent(r, p) == hello[r][p].state # "unsent"

\* The handshake message of the other side has arrived at p.
HandshakeDone(r, p) == hello[r][Other(p)].state = "delivered"

\* Protocol.setSession(data) on p, with the same data in both runs.
setSession(p, v) ==
    /\ userData' = [r \in Runs |-> [userData[r] EXCEPT ![p] = encode(v)]]
    /\ passed' = [r \in Runs |->
                    IF HelloSent(r, p) THEN passed[r]
                    ELSE [passed[r] EXCEPT ![p] = v]]
    /\ UNCHANGED <<coreVars, nameVars, connVars, closeVars, remoteUserData, context,
                   hello, bootVars, errVars, mapVars>>

setContext_Shared(p, cs) ==
    /\ context' = [r \in Runs |-> [context[r] EXCEPT ![p] = cs[r]]]
    /\ userData' = [r \in Runs |->
                      [userData[r] EXCEPT ![p] = [set |-> TRUE, text |-> cs[r]]]]
    /\ UNCHANGED <<coreVars, nameVars, connVars, closeVars, remoteUserData, hello,
                   passed, bootVars, errVars, mapVars>>

\* Protocol.setContext(context) on p; cs gives the argument in each run.
setContext(p, cs) ==
    /\ context' = [r \in Runs |-> [context[r] EXCEPT ![p] = cs[r]]]
    /\ UNCHANGED <<coreVars, nameVars, connVars, closeVars, userData, remoteUserData,
                   hello, passed, bootVars, errVars, mapVars>>

\* The arguments of one setContext call in the two runs: any two values on
\* A, the same value on B.
ContextArgs(p) ==
    IF p = "A" THEN [Runs -> ContextValues]
    ELSE {[r \in Runs |-> c] : c \in ContextValues}

\* init(topic) opens the first feed, and the transport sends its handshake
\* message with the stream's userData of that moment.
OpenSession(p) ==
    /\ ~OpenFeedRan(p)
    /\ topic[p] # NoTopic /\ lookup[p] = "key"
    /\ feedKey' = [feedKey EXCEPT ![p] = discoveryToPublicKey(topic[p])]
    /\ hello' = [r \in Runs |->
                   [hello[r] EXCEPT ![p] = [state |-> "sent",
                                            userData |-> userData[r][p]]]]
    /\ UNCHANGED <<coreVars, nameVars, topic, lookup, emitted, closeVars, userData,
                   remoteUserData, context, passed, bootVars, errVars, mapVars>>

\* The handshake message of the other side arrives at p: the transport
\* stores its userData as stream.remoteUserData.
HelloArrives(p) ==
    /\ \A r \in Runs : hello[r][Other(p)].state = "sent"
    /\ remoteUserData' = [r \in Runs |->
                            [remoteUserData[r] EXCEPT ![p] = hello[r][Other(p)].userData]]
    /\ hello' = [r \in Runs |-> [hello[r] EXCEPT ![Other(p)].state = "delivered"]]
    /\ UNCHANGED <<coreVars, nameVars, connVars, closeVars, userData, context, passed, bootVars, errVars, mapVars>>

InitSession ==
    /\ Fresh
    /\ initFails = [p \in Peers |-> 0]
    /\ NameDefaults /\ CloseDefaults /\ DataDefaults /\ BootDefaults /\ ErrDefaults
    /\ topic = [p \in Peers |-> "T1"]
    /\ lookup = [p \in Peers |-> "key"]
    /\ feedKey = [p \in Peers |-> NoTopic]
    /\ emitted = [p \in Peers |-> <<>>]

NextSession ==
    \E p \in Peers :
        \/ \E v \in SessionValues : setSession(p, v)
        \/ \E cs \in ContextArgs(p) : setContext(p, cs)
        \/ OpenSession(p)
        \/ HelloArrives(p)

SpecSession == InitSession /\ [][NextSession]_vars

C19_Remote ==
    \A r \in Runs : \A p \in Peers :
        HandshakeDone(r, p) => getSession(remoteUserData[r][p]) = passed[r][Other(p)]

C19_Step ==
    \A r \in Runs : \A p \in Peers :
        HandshakeDone(r, p) =>
            /\ HandshakeDone(r, p)'
            /\ getSession(remoteUserData'[r][p]) = getSession(remoteUserData[r][p])

C20_ContextNotObservable ==
    /\ userData[1]["A"] = userData[2]["A"]
    /\ hello[1]["A"] = hello[2]["A"]
    /\ remoteUserData[1]["B"] = remoteUserData[2]["B"]
    /\ getSession(remoteUserData[1]["B"]) = getSession(remoteUserData[2]["B"])
    /\ context[1]["B"] = context[2]["B"]

\* The two runs differ in A's context, A has sent session data and B has
\* received it and set a context of its own.
C20_Witness ==
    /\ context[1]["A"] = "ctx1" /\ context[2]["A"] = "ctx2"
    /\ HandshakeDone(1, "B") /\ HandshakeDone(2, "B")
    /\ getSession(remoteUserData[1]["B"]) = [user |-> "user1"]
    /\ context[1]["B"] = "ctx2"

(***************************************************************************)
(* Calls of Protocol.init (SpecBoot).                                      *)
(***************************************************************************)
MaxInits == 2        \* calls of init() on one session

\* A session that was constructed and not given to init yet.
NotBooted ==
    [init |-> FALSE, results |-> <<>>, extInits |-> 0,
     handshakeListeners |-> 0, eosListeners |-> 0]

InitAllowed_Always(b) == TRUE

\* assert(!this._init)
InitAllowed(b) == ~b.init

\* What a call of init that passed the assertion leaves behind: the flag,
\* one round of extension.init, one 'handshake' and one eos listener.
BootAfterInit(b) ==
    [init |-> TRUE, results |-> Append(b.results, "returned"),
     extInits |-> b.extInits + 1,
     handshakeListeners |-> b.handshakeListeners + 1,
     eosListeners |-> b.eosListeners + 1]

\* Protocol.init(topic): the assertion throws on a started session; else
\* the extensions are initialised, their names pushed to stream.extensions
\* in sorted order, the listeners installed and the first feed opened.
InitCall(p) ==
    /\ Len(boot[p].results) < MaxInits
    /\ IF InitAllowed(boot[p])
       THEN /\ boot' = [boot EXCEPT ![p] = BootAfterInit(@)]
            /\ advertised' = [advertised EXCEPT ![p] = @ \o sortedExtensions(registered[p])]
            /\ feedKey' = [feedKey EXCEPT ![p] = discoveryToPublicKey(topic[p])]
       ELSE /\ boot' = [boot EXCEPT ![p].results = Append(@, "threw")]
            /\ UNCHANGED <<advertised, feedKey>>
    /\ UNCHANGED <<coreVars, registered, topic, lookup, emitted, closeVars, dataVars, errVars, mapVars>>

InitBoot ==
    /\ Fresh /\ initFails = [p \in Peers |-> 0]
    /\ registered = [p \in Peers |-> <<>>]
    /\ advertised = [p \in Peers |-> <<>>]
    /\ boot = [p \in Peers |-> NotBooted]
    /\ topic = [p \in Peers |-> "T1"]
    /\ lookup = [p \in Peers |-> "key"]
    /\ feedKey = [p \in Peers |-> NoTopic]
    /\ emitted = [p \in Peers |-> <<>>]
    /\ CloseDefaults /\ DataDefaults /\ ErrDefaults

NextBoot ==
    \E p \in Peers :
        \/ \E name \in NameUniverse : setExtension(p, name)
        \/ InitCall(p)

SpecBoot == InitBoot /\ [][NextBoot]_vars

\* init installed nothing twice on p.
InstalledOnce(p) ==
    /\ boot[p].extInits <= 1
    /\ boot[p].handshakeListeners <= 1 /\ boot[p].eosListeners <= 1
    /\ Len(advertised[p]) \in {0, Len(registered[p]) + 1}

\* C21 as stated: every call of init returns, and nothing is installed
\* twice.
C21_InitIdempotent ==
    \A p \in Peers :
        /\ \A k \in DOMAIN boot[p].results : boot[p].results[k] = "returned"
        /\ InstalledOnce(p)

C21_Once ==
    \A p \in Peers :
        /\ InstalledOnce(p)
        /\ \A k \in DOMAIN boot[p].results :
               boot[p].results[k] = IF k = 1 THEN "returned" ELSE "threw"

C21_SecondStep ==
    \A p \in Peers :
        (boot[p].init /\ boot'[p] # boot[p]) =>
            /\ boot'[p] = [boot[p] EXCEPT !.results = Append(@, "threw")]
            /\ advertised'[p] = advertised[p]
            /\ feedKey'[p] = feedKey[p]

\* C21, as the code has it: the first init() on a session returns; every
\* later call fails on the assertion and changes nothing, so the extensions
\* are initialised once, their names advertised once and one 'handshake'
\* and one end-of-stream listener installed.
C21_SecondInitThrows == []C21_Once /\ [][C21_SecondStep]_vars

\* init was called twice on a session with two extensions.
C21_Witness ==
    /\ boot["A"].results = <<"returned", "threw">>
    /\ Len(registered["A"]) = 2
    /\ Len(advertised["A"]) = 3

(***************************************************************************)
(* The bounded wait of the init gate (SpecGate): continue() of the         *)
(* ExtensionInit that waits with _remoteSignal.wait(this._timeout). The    *)
(* remote session B answers requests, but its listener hangs in a hook and *)
(* never sends a token; no stream ends while A is at its gate.             *)
(***************************************************************************)
WaitArmed_Never(p) == FALSE

\* _remoteSignal.wait(this._timeout) has armed its timer: someone waits.
WaitArmed(p) == signal[p] = "waiting"

\* The timer of _remoteSignal.wait(this._timeout) runs out: the wait ends
\* without a notification. Whether the library ends it by rejecting (the
\* catch block returns false) or by resolving (_remoteInit is returned, and
\* it is still null), continue() returns a value that is not true.
WaitTimeout(p) ==
    /\ pc[p] = "signal_wait"
    /\ WaitArmed(p)
    /\ signal' = [signal EXCEPT ![p] = "idle"]
    /\ ValidateReturns(p, FALSE)
    /\ UNCHANGED <<awaiting, log, remoteInit, streamVars, runtimeVars, initFails,
                   sessionVars>>

\* The session is inside continue().
AtGate(p) == pc[p] \in {"validate_await", "signal_wait"}

\* The steps of the listener up to and into continue(), with the frames
\* its extensions handle.
GateEntry(p) ==
    \/ TransportHandshake(p)
    \/ InitLoop(p)
    \/ onInit(p)
    \/ validate(p)
    \/ validateResume(p)
    \/ onMessage(p)

\* A timer of a send runs out.
GateTimerStep == \E id \in DOMAIN calls : TimerFire(id)

\* What the hanging session B still does: its listener starts and enters
\* the first hook, and its extensions handle the frames that arrive.
HangingStep(p) == TransportHandshake(p) \/ InitLoop(p) \/ onMessage(p)

InitGate == Init /\ initFails["B"] = 0

NextGate ==
    \/ GateEntry("A")
    \/ AbortStep("A")
    \/ WaitTimeout("A")
    \/ HangingStep("B")
    \/ GateTimerStep

SpecGate ==
    /\ InitGate
    /\ [][NextGate]_vars
    /\ WF_vars(GateEntry("A"))
    /\ WF_vars(WaitTimeout("A"))
    /\ WF_vars(GateTimerStep)

C22_NotTrue ==
    (AtGate("A") /\ remoteInit["A"] # "true") => pc'["A"] # "handshake_loop"

GateFailed(p) == caught[p] = "invalid init protocol"

\* The catch block of p has finished.
Aborted(p) == pc[p] = "aborted"

C23_Aborting ==
    \A p \in Peers :
        GateFailed(p) =>
            /\ pc[p] \in {"catch", "invalidate_await", "finally", "aborted"}
            /\ ~HandshakeRan(p)
            /\ Aborted(p) =>
                   /\ destroyed[p]
                   /\ destroyErr[p] \in {"ERR_ON_HANDSHAKE", "invalid peer", "none"}
                   /\ log[p][Len(log[p])] = <<"emit", "error">>

C23_FalseStep ==
    \A p \in Peers :
        (AtGate(p) /\ ~AtGate(p)' /\ remoteInit[p] = "false") =>
            pc'[p] = "catch" /\ caught'[p] = "invalid init protocol"

LifeExts == <<"buffer", "auth">>

\* The handshake callbacks of A, in the order of setHandshakeHandler.
LifeHandshakes == <<"handshake1", "handshake2">>

OpenOrder_UsersFirst == LifeExts \o <<InitExtName>>

\* _openExtensions opens the init extension, then the user extensions in
\* the order of the Map.
OpenOrder == <<InitExtName>> \o LifeExts

HandshakeFailed_Unwrapped(err) == err

\* The wrapper setHandshakeHandler puts around the user's callback.
HandshakeFailed(err) == "ERR_PROTOCOL_HANDSHAKE_FAILED"

AfterInitThrow_NoBreak == "listener_catch"

\* The catch block of _initExtensions: await break(), then throw again.
AfterInitThrow == "break"

\* break() returns at once when the remote result is already false.
BreakSkips(r) == r = "false"

\* What an action of the listener leaves alone.
lifeFrame == <<awaiting, gateVars, streamVars, runtimeVars, initFails, sessionVars>>

\* _openExtensions, one turn: open the next extension, or after the last
\* one push the sorted names; _open then installs the listeners and opens
\* the connection.
OpenNext(p) ==
    /\ pc[p] = "open_loop"
    /\ IF idx[p] <= Len(OpenOrder)
       THEN /\ log' = Logged(p, <<"open", OpenOrder[idx[p]]>>)
            /\ pc' = [pc EXCEPT ![p] = "open_await"]
            /\ UNCHANGED <<idx, advertised, feedKey, boot>>
       ELSE /\ advertised' = [advertised EXCEPT ![p] = sortedExtensions(LifeExts)]
            /\ feedKey' = [feedKey EXCEPT ![p] = discoveryToPublicKey(topic[p])]
            /\ boot' = [boot EXCEPT ![p].handshakeListeners = @ + 1,
                                    ![p].eosListeners = @ + 1]
            /\ pc' = [pc EXCEPT ![p] = "await_handshake"]
            /\ idx' = [idx EXCEPT ![p] = 1]
            /\ UNCHANGED log
    /\ UNCHANGED <<awaiting, caught, gateVars, streamVars, runtimeVars, initFails,
                   registered, topic, lookup, emitted, closeVars, dataVars, errVars, mapVars>>

\* The awaited openWithProtocol returns, or throws: open() rejects and
\* init emits the error.
OpenReturns(p, ok) ==
    /\ pc[p] = "open_await"
    /\ IF ok
       THEN /\ log' = Logged(p, <<"open.done", OpenOrder[idx[p]]>>)
            /\ idx' = [idx EXCEPT ![p] = @ + 1]
            /\ pc' = [pc EXCEPT ![p] = "open_loop"]
            /\ UNCHANGED <<caught, emitted>>
       ELSE /\ caught' = [caught EXCEPT ![p] = "open error"]
            /\ emitted' = [emitted EXCEPT ![p] = Append(@, "open error")]
            /\ log' = Logged(p, <<"emit", "error">>)
            /\ pc' = [pc EXCEPT ![p] = "open_failed"]
            /\ UNCHANGED idx
    /\ UNCHANGED <<awaiting, gateVars, streamVars, runtimeVars, initFails, nameVars,
                   topic, lookup, feedKey, closeVars, dataVars, bootVars, errVars, mapVars>>

\* The stream's 'handshake' event starts the listener.
OnceHandshake(p) ==
    /\ pc[p] = "await_handshake"
    /\ ~destroyed[p]
    /\ log' = Logged(p, <<"transport", "handshake">>)
    /\ pc' = [pc EXCEPT ![p] = "init_exts"]
    /\ idx' = [idx EXCEPT ![p] = 1]
    /\ UNCHANGED <<caught, lifeFrame>>

\* _initExtensions, one turn: onInit of the next extension, or after the
\* last one continue(), which first sends its own token.
InitNext(p) ==
    /\ pc[p] = "init_exts"
    /\ IF idx[p] <= Len(LifeExts)
       THEN /\ log' = Logged(p, <<"onInit", LifeExts[idx[p]]>>)
            /\ pc' = [pc EXCEPT ![p] = "onInit_await"]
            /\ UNCHANGED <<awaiting, net, calls, pending, stats, wlog>>
       ELSE /\ send(p, InitExtName, "valid", FALSE)
            /\ awaiting' = [awaiting EXCEPT ![p] = NextId]
            /\ log' = Logged(p, <<"continue", InitExtName>>)
            /\ pc' = [pc EXCEPT ![p] = "continue_await"]
    /\ UNCHANGED <<idx, caught, gateVars, streamVars, extErrors, running, handled,
                   initFails, sessionVars>>

\* The awaited onInit returns, or throws into the catch block.
InitReturns(p, ok) ==
    /\ pc[p] = "onInit_await"
    /\ IF ok
       THEN /\ log' = Logged(p, <<"onInit.done", LifeExts[idx[p]]>>)
            /\ idx' = [idx EXCEPT ![p] = @ + 1]
            /\ pc' = [pc EXCEPT ![p] = "init_exts"]
            /\ UNCHANGED caught
       ELSE /\ caught' = [caught EXCEPT ![p] = "onInit error"]
            /\ pc' = [pc EXCEPT ![p] = AfterInitThrow]
            /\ UNCHANGED <<idx, log>>
    /\ UNCHANGED lifeFrame

\* continue() returns once its request has settled and the remote result
\* is known or the wait for it is over; whatever it returns, the listener
\* goes on and emits 'extensions-initialized'.
ContinueReturns(p) ==
    /\ pc[p] = "continue_await"
    /\ calls[awaiting[p]].state # "pending"
    /\ awaiting' = [awaiting EXCEPT ![p] = 0]
    /\ log' = [log EXCEPT ![p] = @ \o << <<"continue.done", InitExtName>>,
                                        <<"emit", "extensions-initialized">> >>]
    /\ idx' = [idx EXCEPT ![p] = 1]
    /\ pc' = [pc EXCEPT ![p] = "handshakes"]
    /\ UNCHANGED <<caught, gateVars, streamVars, runtimeVars, initFails, sessionVars>>

\* break() up to its await: nothing to do when the remote result is false,
\* else the request that tells the remote side to give up.
Break(p) ==
    /\ pc[p] = "break"
    /\ IF BreakSkips(remoteInit[p])
       THEN /\ pc' = [pc EXCEPT ![p] = "listener_catch"]
            /\ log' = Logged(p, <<"break.done", InitExtName>>)
            /\ UNCHANGED <<awaiting, net, calls, pending, stats, wlog>>
       ELSE /\ send(p, InitExtName, "invalid", FALSE)
            /\ awaiting' = [awaiting EXCEPT ![p] = NextId]
            /\ pc' = [pc EXCEPT ![p] = "break_await"]
            /\ UNCHANGED log
    /\ UNCHANGED <<idx, caught, gateVars, streamVars, extErrors, running, handled,
                   initFails, sessionVars>>

\* break() after its request has settled: an error is swallowed, and
\* _initExtensions throws the caught error again.
BreakReturns(p) ==
    /\ pc[p] = "break_await"
    /\ calls[awaiting[p]].state # "pending"
    /\ awaiting' = [awaiting EXCEPT ![p] = 0]
    /\ log' = Logged(p, <<"break.done", InitExtName>>)
    /\ pc' = [pc EXCEPT ![p] = "listener_catch"]
    /\ UNCHANGED <<idx, caught, gateVars, streamVars, runtimeVars, initFails, sessionVars>>

\* The catch block of the listener: stream.destroy(), emit('error', err).
ListenerCatch(p) ==
    /\ pc[p] = "listener_catch"
    /\ destroyed' = [destroyed EXCEPT ![p] = TRUE]
    /\ net' = [net EXCEPT ![p] = <<>>]
    /\ emitted' = [emitted EXCEPT ![p] = Append(@, caught[p])]
    /\ log' = Logged(p, <<"emit", "error">>)
    /\ pc' = [pc EXCEPT ![p] = "aborted"]
    /\ UNCHANGED <<idx, awaiting, caught, gateVars, destroyErr, eosDone, closeCount,
                   calls, pending, stats, extErrors, running, handled, wlog, initFails,
                   nameVars, topic, lookup, feedKey, closeVars, dataVars, bootVars, errVars, mapVars>>

\* _handshakeExtensions, first loop, one turn.
HandshakeNext(p) ==
    /\ pc[p] = "handshakes"
    /\ IF idx[p] <= Len(LifeHandshakes)
       THEN /\ log' = Logged(p, <<"handshake.cb", LifeHandshakes[idx[p]]>>)
            /\ pc' = [pc EXCEPT ![p] = "handshake_await"]
            /\ UNCHANGED idx
       ELSE /\ pc' = [pc EXCEPT ![p] = "onHandshakes"]
            /\ idx' = [idx EXCEPT ![p] = 1]
            /\ UNCHANGED log
    /\ UNCHANGED <<caught, lifeFrame>>

\* The awaited handshake callback returns, or its wrapper throws.
HandshakeReturns(p, ok) ==
    /\ pc[p] = "handshake_await"
    /\ IF ok
       THEN /\ log' = Logged(p, <<"handshake.cb.done", LifeHandshakes[idx[p]]>>)
            /\ idx' = [idx EXCEPT ![p] = @ + 1]
            /\ pc' = [pc EXCEPT ![p] = "handshakes"]
            /\ UNCHANGED caught
       ELSE /\ caught' = [caught EXCEPT ![p] = HandshakeFailed("handshake error")]
            /\ pc' = [pc EXCEPT ![p] = "listener_catch"]
            /\ UNCHANGED <<idx, log>>
    /\ UNCHANGED lifeFrame

\* _handshakeExtensions, second loop, one turn; after the last turn
\* 'handshake' is emitted, and 'extensions-handshake' by the listener.
OnHandshakeNext(p) ==
    /\ pc[p] = "onHandshakes"
    /\ IF idx[p] <= Len(LifeExts)
       THEN /\ log' = Logged(p, <<"onHandshake", LifeExts[idx[p]]>>)
            /\ pc' = [pc EXCEPT ![p] = "onHandshake_await"]
       ELSE /\ log' = [log EXCEPT ![p] = @ \o << <<"emit", "handshake">>,
                                                <<"emit", "extensions-handshake">> >>]
            /\ pc' = [pc EXCEPT ![p] = "running"]
    /\ UNCHANGED <<idx, caught, lifeFrame>>

\* The awaited onHandshake returns, or throws.
OnHandshakeReturns(p, ok) ==
    /\ pc[p] = "onHandshake_await"
    /\ IF ok
       THEN /\ log' = Logged(p, <<"onHandshake.done", LifeExts[idx[p]]>>)
            /\ idx' = [idx EXCEPT ![p] = @ + 1]
            /\ pc' = [pc EXCEPT ![p] = "onHandshakes"]
            /\ UNCHANGED caught
       ELSE /\ caught' = [caught EXCEPT ![p] = "onHandshake error"]
            /\ pc' = [pc EXCEPT ![p] = "listener_catch"]
            /\ UNCHANGED <<idx, log>>
    /\ UNCHANGED lifeFrame

\* The remote session sends its token, once, after the transport handshake.
RemoteToken(q, data) ==
    /\ pc[Other(q)] \notin {"open_loop", "open_await", "open_failed", "await_handshake"}
    /\ \A i \in DOMAIN calls : calls[i].peer # q
    /\ send(q, InitExtName, data, FALSE)
    /\ UNCHANGED <<lifeVars, gateVars, streamVars, extErrors, running, handled,
                   initFails, sessionVars>>

\* Session A before _open, with every field but its topic.
LifeFresh ==
    /\ pc = [p \in Peers |-> IF p = "A" THEN "open_loop" ELSE "remote"]
    /\ idx = [p \in Peers |-> 1]
    /\ awaiting = [p \in Peers |-> 0]
    /\ caught = [p \in Peers |-> "none"]
    /\ remoteInit = [p \in Peers |-> "null"]
    /\ signal = [p \in Peers |-> "idle"]
    /\ destroyed = [p \in Peers |-> FALSE]
    /\ destroyErr = [p \in Peers |-> "none"]
    /\ eosDone = [p \in Peers |-> FALSE]
    /\ closeCount = [p \in Peers |-> [e \in ExtNames |-> 0]]
    /\ net = [p \in Peers |-> <<>>]
    /\ calls = <<>>
    /\ pending = [p \in Peers |-> [e \in ExtNames |-> {}]]
    /\ stats = [p \in Peers |-> [e \in ExtNames |-> ZeroStats]]
    /\ extErrors = [p \in Peers |-> [e \in ExtNames |-> 0]]
    /\ running = [p \in Peers |-> {}]
    /\ handled = [p \in Peers |-> {}]
    /\ wlog = [p \in Peers |-> <<>>]
    /\ log = [p \in Peers |-> <<>>]
    /\ initFails = [p \in Peers |-> 0]
    /\ CloseDefaults /\ DataDefaults /\ ErrDefaults
    /\ registered = [p \in Peers |-> LifeExts]
    /\ advertised = [p \in Peers |-> IF p = "A" THEN <<>> ELSE sortedExtensions(LifeExts)]
    /\ boot = [p \in Peers |-> IF p = "A" THEN [Booted EXCEPT !.handshakeListeners = 0,
                                                              !.eosListeners = 0]
                                              ELSE Booted]
    /\ lookup = [p \in Peers |-> "key"]
    /\ feedKey = [p \in Peers |-> IF p = "A" THEN NoTopic ELSE "T1"]
    /\ emitted = [p \in Peers |-> <<>>]

InitLife == LifeFresh /\ topic = [p \in Peers |-> "T1"]

NextLife ==
    \/ OpenNext("A")
    \/ \E ok \in BOOLEAN : OpenReturns("A", ok)
    \/ OnceHandshake("A")
    \/ InitNext("A")
    \/ \E ok \in BOOLEAN : InitReturns("A", ok)
    \/ ContinueReturns("A")
    \/ Break("A")
    \/ BreakReturns("A")
    \/ ListenerCatch("A")
    \/ HandshakeNext("A")
    \/ \E ok \in BOOLEAN : HandshakeReturns("A", ok)
    \/ OnHandshakeNext("A")
    \/ \E ok \in BOOLEAN : OnHandshakeReturns("A", ok)
    \/ \E data \in {"valid", "invalid"} : RemoteToken("B", data)
    \/ \E p \in Peers : onMessage(p)
    \/ GateTimerStep

SpecLife == InitLife /\ [][NextLife]_vars

(***************************************************************************)
(* Properties of the lifecycle (SpecLife).                                 *)
(***************************************************************************)
\* An onInit hook of peer p has thrown.
InitThrew(p) == caught[p] = "onInit error"

\* break() of peer p has returned.
BreakDone(p) == \E k \in DOMAIN log[p] : log[p][k] = <<"break.done", InitExtName>>

\* C24 as stated: whenever an onInit hook threw and the stream was
\* destroyed, 'invalid' had been sent to the remote.
C24_BreakSendsInvalid ==
    \A p \in Peers : (InitThrew(p) /\ destroyed[p]) => TokenSent(p, "invalid")

\* C24: when an onInit hook throws, no onInit of a later extension is
\* started and no handshake step runs; the stream is destroyed only after
\* break() has returned, which has written 'invalid' unless the remote
\* result was already invalid; and the error emitted is the thrown one.
C24_BreakBeforeAbort ==
    \A p \in Peers : InitThrew(p) =>
        /\ pc[p] \in {"break", "break_await", "listener_catch", "aborted"}
        /\ \A k \in DOMAIN log[p] :
               log[p][k][1] = "onInit" =>
                   \E i \in 1..idx[p] : log[p][k][2] = LifeExts[i]
        /\ ~HandshakeRan(p)
        /\ destroyed[p] =>
               /\ BreakDone(p)
               /\ TokenSent(p, "invalid") \/ remoteInit[p] = "false"
               /\ emitted[p] = <<"onInit error">>

\* The first extension's onInit threw, 'invalid' was sent and the session
\* has aborted.
C24_Witness ==
    /\ InitThrew("A") /\ idx["A"] = 1 /\ pc["A"] = "aborted"
    /\ TokenSent("A", "invalid")
    /\ calls[1].peer = "A" /\ calls[1].state = "resolved"

\* A handshake callback of peer p was started and has thrown.
HandshakeThrew(p) ==
    /\ pc[p] # "handshake_await"
    /\ \E k \in DOMAIN log[p] :
           /\ log[p][k][1] = "handshake.cb"
           /\ \A j \in DOMAIN log[p] : log[p][j] # <<"handshake.cb.done", log[p][k][2]>>

\* C25: when a handshake callback throws, the session aborts with
\* ERR_PROTOCOL_HANDSHAKE_FAILED: no later handshake callback and no
\* onHandshake hook is started, 'handshake' is not emitted, and the stream
\* is destroyed when the error is emitted.
C25_HandshakeThrowAborts ==
    \A p \in Peers : HandshakeThrew(p) =>
        /\ caught[p] = "ERR_PROTOCOL_HANDSHAKE_FAILED"
        /\ pc[p] \in {"listener_catch", "aborted"}
        /\ \A k \in DOMAIN log[p] :
               /\ log[p][k][1] = "handshake.cb" =>
                      \E i \in 1..idx[p] : log[p][k][2] = LifeHandshakes[i]
               /\ log[p][k][1] # "onHandshake"
               /\ log[p][k] # <<"emit", "handshake">>
        /\ pc[p] = "aborted" =>
               /\ destroyed[p]
               /\ emitted[p] = <<"ERR_PROTOCOL_HANDSHAKE_FAILED">>

\* The first of the two handshake callbacks threw and the session has
\* aborted.
C25_Witness ==
    /\ HandshakeThrew("A") /\ idx["A"] = 1 /\ pc["A"] = "aborted"
    /\ destroyed["A"]
    /\ emitted["A"] = <<"ERR_PROTOCOL_HANDSHAKE_FAILED">>

\* One step after the other: each name's start entry followed by its
\* completion entry.
RECURSIVE StartDone(_, _, _)
StartDone(start, done, names) ==
    IF names = <<>> THEN <<>>
    ELSE << <<start, Head(names)>>, <<done, Head(names)>> >>
         \o StartDone(start, done, Tail(names))

\* The order of the lifecycle steps the claim gives.
LifeOrder ==
    StartDone("open", "open.done", <<InitExtName>> \o LifeExts)
    \o << <<"transport", "handshake">> >>
    \o StartDone("onInit", "onInit.done", LifeExts)
    \o << <<"continue", InitExtName>>, <<"continue.done", InitExtName>>,
          <<"emit", "extensions-initialized">> >>
    \o StartDone("handshake.cb", "handshake.cb.done", LifeHandshakes)
    \o StartDone("onHandshake", "onHandshake.done", LifeExts)
    \o << <<"emit", "handshake">>, <<"emit", "extensions-handshake">> >>

\* The steps of peer p so far, without what an abort adds at the end.
LifeSteps(p) ==
    SelectSeq(log[p], LAMBDA e : e # <<"emit", "error">> /\ e[1] # "break.done")

\* C27: the lifecycle steps of a session occur in the order open of the
\* init extension, open of each user extension, transport handshake,
\* onInit of each user extension, continue(), 'extensions-initialized',
\* the handshake callbacks, onHandshake of each user extension, 'handshake',
\* each step starting after the previous one has completed: the steps so
\* far are always a prefix of that order.
C27_LifecycleOrder ==
    \A p \in Peers :
        /\ Len(LifeSteps(p)) <= Len(LifeOrder)
        /\ LifeSteps(p) = SubSeq(LifeOrder, 1, Len(LifeSteps(p)))

\* The session went through the whole lifecycle.
C27_Witness ==
    /\ pc["A"] = "running"
    /\ log["A"] = LifeOrder
    /\ Len(LifeOrder) = 24

(***************************************************************************)
(* More properties of the request/response runtime (SpecRR).               *)
(***************************************************************************)
\* This step is the timeout of call i: its timer fires before any frame
\* with its id has come.
TimesOut(i) == calls[i].first = "none" /\ calls'[i].first = "timeout"

\* C26: the timeout of a send rejects the caller and nothing else: in that
\* step no stream is destroyed, no close handler runs, no error is emitted
\* by the extension or the session and no frame is lost; and a response
\* that comes for another send still resolves it, whatever has timed out
\* before.
C26_Step ==
    /\ \A i \in CallIds : TimesOut(i) =>
           /\ calls'[i].state = "rejected" /\ calls'[i].value = ErrVal(TimeoutError)
           /\ \A j \in CallIds \ {i} : calls'[j] = calls[j]
           /\ UNCHANGED <<destroyed, destroyErr, eosDone, closeCount, extErrors,
                          emitted, log, net, pending, running>>
    /\ \A p \in Peers :
           (net[p] # <<>> /\ Len(net'[p]) < Len(net[p]) /\ ~destroyed[p] /\ ~destroyed'[p]) =>
               LET f == Head(net[p])
               IN  (PendingMatch(pending[p], f) /\ f.error = NoError
                    /\ ~calls[f.id].expired) =>
                       calls'[f.id].state = "resolved"

C26_TimeoutRejectsCallerOnly == [][C26_Step]_vars

\* A's first request timed out, and its next request on the same extension
\* was answered afterwards; both streams are open.
C26_Witness ==
    \E i, j \in CallIds :
        /\ i < j /\ calls[i].peer = "A" /\ calls[j].peer = "A"
        /\ calls[i].ext = "buffer" /\ calls[j].ext = "buffer"
        /\ calls[i].first = "timeout" /\ calls[i].state = "rejected"
        /\ calls[j].first = "response" /\ calls[j].state = "resolved"
        /\ calls[j].value = Val("pong")
        /\ \A p \in Peers : ~destroyed[p] /\ closeCount[p]["buffer"] = 0

(***************************************************************************)
(* More properties of the init gate (Spec).                                *)
(***************************************************************************)
\* Peer p has been handed the remote peer's token data.
TokenReceived(p, data) ==
    \E i \in handled[p] :
        /\ i \in DOMAIN calls
        /\ calls[i].peer = Other(p) /\ calls[i].ext = InitExtName
        /\ calls[i].data = data

\* The request that carried p's own 'valid' was rejected.
OwnValidFailed(p) ==
    \E i \in DOMAIN calls :
        /\ calls[i].peer = p /\ calls[i].ext = InitExtName /\ calls[i].data = "valid"
        /\ calls'[i].state = "rejected"

\* The close handler of p's ExtensionInit has run.
InitClosed(p) == closeCount[p][InitExtName] > 0

\* This step is the return of validate on peer p, with the value ok.
ValidateReturned(p, ok) ==
    /\ pc[p] \in {"validate_await", "signal_wait"}
    /\ pc'[p] = (IF ok THEN "handshake_loop" ELSE "catch")

\* C28: the gate returns true only if the remote's 'valid' was received,
\* no 'invalid' was, and the close handler has not run; it returns false
\* whenever the remote's 'invalid' was received, the close handler ran
\* while it was pending, or its own 'valid' request was rejected.
C28_Step ==
    \A p \in Peers :
        /\ pc[p] \in {"validate_await", "signal_wait"} =>
               pc'[p] \in {pc[p], "signal_wait", "handshake_loop", "catch"}
        /\ ValidateReturned(p, TRUE) =>
               /\ TokenReceived(p, "valid") /\ ~TokenReceived(p, "invalid")
               /\ ~InitClosed(p) /\ ~OwnValidFailed(p)
        /\ (pc[p] \in {"validate_await", "signal_wait"} /\ pc'[p] \notin {pc[p], "signal_wait"}
            /\ (TokenReceived(p, "invalid") \/ InitClosed(p) \/ OwnValidFailed(p))) =>
               ValidateReturned(p, FALSE)

C28_GateResult == [][C28_Step]_vars

\* The gate returned true on B, which had A's 'valid'; on A it returned
\* false although B's 'valid' had arrived and A's own request had been
\* answered, because A's close handler ran before it returned.
C28_Witness ==
    /\ caught["A"] = "invalid init protocol"
    /\ TokenReceived("A", "valid") /\ ~TokenReceived("A", "invalid")
    /\ InitClosed("A")
    /\ \E i \in DOMAIN calls :
           /\ calls[i].peer = "A" /\ calls[i].data = "valid" /\ calls[i].state = "resolved"
    /\ HandshakeRan("B") /\ TokenReceived("B", "valid")

(***************************************************************************)
(* invalidate (break) called more than once on one ExtensionInit           *)
(* (SpecBreak): A's onInit throws and A calls invalidate, and may call it  *)
(* again each time it has returned; B sends its own token and answers.     *)
(***************************************************************************)
MaxBreaks == 3

\* The frames with token data that peer p wrote as requests of its own.
TokenFrames(p, data) ==
    {k \in DOMAIN wlog[p] :
        /\ wlog[p][k].ext = InitExtName /\ wlog[p][k].data = data
        /\ wlog[p][k].id \in DOMAIN calls /\ calls[wlog[p][k].id].peer = p}

\* invalidate has returned and its caller calls it once more.
BreakAgain(p) ==
    /\ pc[p] = "finally"
    /\ Cardinality(TokenFrames(p, "invalid")) < MaxBreaks
    /\ pc' = [pc EXCEPT ![p] = "catch"]
    /\ UNCHANGED <<idx, awaiting, caught, log, gateVars, streamVars, runtimeVars,
                   initFails, sessionVars>>

InitBreak == Init /\ initFails = [p \in Peers |-> IF p = "A" THEN 1 ELSE 0]

NextBreak ==
    \/ \E p \in Peers : TransportHandshake(p) \/ InitLoop(p) \/ onInit(p)
    \/ \E p \in Peers : onMessage(p) \/ Pump(p) \/ Eos(p)
    \/ validate("B")
    \/ invalidate("A")
    \/ invalidateResume("A")
    \/ BreakAgain("A")
    \/ Finally("A")
    \/ GateTimerStep

SpecBreak == InitBreak /\ [][NextBreak]_vars

C29_Ordered ==
    \A p \in Peers :
        /\ Cardinality(TokenFrames(p, "destroy")) <= 1
        /\ \A d \in TokenFrames(p, "destroy") :
               /\ wlog[p][d].oneway
               /\ \E i \in TokenFrames(p, "invalid") :
                      i < d /\ calls[wlog[p][i].id].state = "resolved"

\* One call of invalidate writes at most one 'invalid' and one 'destroy',
\* and writes nothing when a remote result is recorded as it starts.
C29_CallStep ==
    \A p \in Peers :
        /\ Len(wlog'[p]) <= Len(wlog[p]) + 1
        /\ (pc[p] = "catch" /\ pc'[p] # "catch" /\ remoteInit[p] # "null") =>
               /\ pc'[p] = "finally"
               /\ wlog'[p] = wlog[p]

LateFrame(p, i) ==
    /\ calls[i].peer = p /\ calls[i].expired
    /\ i \in pending[p][calls[i].ext]
    /\ i \notin pending'[p][calls[i].ext]

\* C30 as stated: a response for a call whose timer has fired changes none
\* of the counters and emits no 'error'.
C30_SilentStep ==
    \A p \in Peers : \A i \in CallIds :
        LateFrame(p, i) => stats' = stats /\ extErrors' = extErrors

C30_DroppedSilently == [][C30_SilentStep]_vars

\* What the late frame does: the call keeps its rejection and the message
\* handler is not called; the receive counter goes up by one ('receive' is
\* emitted with it), send and error keep their values, and a response
\* without error makes the extension emit one 'error'.
C30_LateStep ==
    \A p \in Peers : \A i \in CallIds :
        LateFrame(p, i) =>
            LET e == calls[i].ext
                f == Head(net[p])
            IN  /\ f.id = i
                /\ calls'[i].state = "rejected" /\ calls'[i].value = ErrVal(TimeoutError)
                /\ calls'[i].settled = calls[i].settled
                /\ stats' = [stats EXCEPT ![p][e].receive = @ + 1]
                /\ extErrors' = [extErrors EXCEPT ![p][e] =
                                    IF f.error = NoError THEN @ + 1 ELSE @]
                /\ UNCHANGED <<running, handled, wlog, destroyed, closeCount>>

\* C30: a response for a call whose timer has fired never reaches the
\* caller or the message handler, but it is counted as received and makes
\* the extension emit 'error'.
C30_LateResponseCounted == [][C30_LateStep]_vars

\* The response to A's request came after its timer had fired: the call
\* is rejected with the timeout, one frame was received and one error was
\* emitted by the extension.
C30_Witness ==
    \E i \in CallIds :
        /\ calls[i].peer = "A" /\ calls[i].ext = "buffer" /\ calls[i].data = "ping"
        /\ calls[i].expired /\ calls[i].done
        /\ calls[i].state = "rejected"
        /\ stats["A"]["buffer"] = [send |-> 1, receive |-> 1, error |-> 1]
        /\ extErrors["A"]["buffer"] = 1

(***************************************************************************)
(* A frame that arrives twice (SpecDup): two sessions past the handshake,  *)
(* A sends requests, and the wire may deliver once more a frame that has   *)
(* already settled a call of the receiver.                                 *)
(***************************************************************************)
MaxFrames == 5

MaxDups == 1

\* Call i of peer p has been matched by a frame and is no longer in
\* _pendingMessages.
Matched(p, i) ==
    /\ i \in DOMAIN calls
    /\ calls[i].peer = p /\ ~calls[i].oneway /\ calls[i].done
    /\ i \notin pending[p][calls[i].ext]

\* The frames the remote side wrote for calls of p that have been matched.
MatchedFrames(p) ==
    {wlog[Other(p)][k] : k \in {j \in DOMAIN wlog[Other(p)] :
                                   Matched(p, wlog[Other(p)][j].id)}}

\* The transport delivers such a frame to p a second time.
DuplicateFrame(p) ==
    /\ ~destroyed[p] /\ ~destroyed[Other(p)]
    /\ net[p] = <<>>
    /\ Len(wlog[p]) < MaxFrames
    /\ \E f \in MatchedFrames(p) :
           /\ extErrors[p][f.ext] < MaxDups
           /\ net' = [net EXCEPT ![p] = Append(@, f)]
    /\ UNCHANGED <<lifeVars, gateVars, streamVars, calls, pending, stats, extErrors,
                   running, handled, wlog, initFails, sessionVars>>

\* onMessage, as long as the receiver has written fewer than MaxFrames frames.
DupDispatch(p) == Len(wlog[p]) < MaxFrames /\ onMessage(p)

NextDup ==
    \/ \E p \in Peers :
          \/ \E req \in UserRequests : UserSend(p, req)
          \/ DupDispatch(p)
          \/ HandlerSettle(p)
          \/ DuplicateFrame(p)
    \/ \E id \in DOMAIN calls : TimerFire(id)

SpecDup == InitRR /\ [][NextDup]_vars

\* This step hands peer p a frame whose id is that of a matched call of p.
SpuriousDispatch(p) ==
    /\ net[p] # <<>> /\ net'[p] = Tail(net[p])
    /\ Matched(p, Head(net[p]).id)

\* C31: a second frame with the id of a call that has already been matched
\* is dropped: the message handler is not called with it and no frame is
\* written in reply.
C31_Step ==
    \A p \in Peers :
        SpuriousDispatch(p) =>
            /\ handled'[p] = handled[p] /\ running'[p] = running[p]
            /\ wlog'[p] = wlog[p]
            /\ net'[Other(p)] = net[Other(p)]

C31_DuplicateDropped == [][C31_Step]_vars

(***************************************************************************)
(* Requests for an extension without message handler (SpecNoHandler): as   *)
(* SpecRR, and B's owner sends requests on "buffer" too, which A's         *)
(* extension has no handler for.                                           *)
(***************************************************************************)
\* The owner of the remote session sends a request on its "buffer" extension.
RemoteRequest(q, req) ==
    /\ q = "B"
    /\ pc[q] = "running"
    /\ UserSends < MaxSends
    /\ send(q, "buffer", req[1], req[2])
    /\ UNCHANGED <<lifeVars, gateVars, streamVars, extErrors, running, handled, initFails, sessionVars>>

NextNoHandler ==
    \/ \E p \in Peers :
          \/ \E req \in UserRequests : UserSend(p, req)
          \/ \E req \in UserRequests : RemoteRequest(p, req)
          \/ onMessage(p)
          \/ HandlerSettle(p)
    \/ \E id \in DOMAIN calls : TimerFire(id)

SpecNoHandler == InitRR /\ [][NextNoHandler]_vars

\* This step hands peer p a request for an extension without handler.
NoHandlerDispatch(p) ==
    /\ net[p] # <<>> /\ net'[p] = Tail(net[p]) /\ ~destroyed'[p]
    /\ ~PendingMatch(pending[p], Head(net[p]))
    /\ ~HasMessageHandler(p, Head(net[p]).ext)

\* What such a step leaves alone: no response is written, no call and no
\* entry of the pending table changes, and the stream stays as it is.
NoHandlerDrop(p) ==
    /\ extErrors' = [extErrors EXCEPT ![p][Head(net[p]).ext] = @ + 1]
    /\ UNCHANGED <<wlog, calls, pending, stats, running, handled, streamVars>>
    /\ net'[Other(p)] = net[Other(p)]

\* C32 as stated: the request makes the extension emit ERR_NO_HANDLER.
C32_NoHandlerCodeStep ==
    \A p \in Peers :
        NoHandlerDispatch(p) =>
            /\ "ERR_NO_HANDLER" \in extErrorCodes'[p][Head(net[p]).ext]
            /\ NoHandlerDrop(p)

C32_Step ==
    \A p \in Peers :
        NoHandlerDispatch(p) =>
            /\ extErrorCodes'[p] = [extErrorCodes[p] EXCEPT ![Head(net[p]).ext] =
                                       @ \cup {"ERR_SYSTEM"}]
            /\ NoHandlerDrop(p)

MaxGarbage == 2

\* Bytes that are not an encoded envelope, as a frame for extension e.
GarbageBytes == "not an envelope"

Garbage(e) == [ext |-> e, id |-> 0, data |-> GarbageBytes, oneway |-> FALSE, error |-> NoError]

\* Codec.decode: the envelope, or the empty object {} when decoding throws.
EmptyEnvelope == [empty |-> TRUE]

decode(f) == IF f.data = GarbageBytes THEN EmptyEnvelope ELSE f

\* The destructured id of a decoded envelope is undefined for {}.
IdUndefined(env) == env = EmptyEnvelope

\* onMessage calls that ended with an exception, on peer p.
Thrown(p) == {k \in DOMAIN log[p] : log[p][k][1] = "onMessage threw"}

\* The transport hands p bytes that are no envelope, for one of its extensions.
GarbageArrives(p, e) ==
    /\ ~destroyed[p] /\ ~destroyed[Other(p)]
    /\ \A q \in Peers : \A k \in DOMAIN net[q] : net[q][k].data # GarbageBytes
    /\ Cardinality(Thrown("A")) + Cardinality(Thrown("B")) < MaxGarbage
    /\ net' = [net EXCEPT ![p] = Append(@, Garbage(e))]
    /\ UNCHANGED <<lifeVars, gateVars, streamVars, calls, pending, stats, extErrors,
                   running, handled, wlog, initFails, sessionVars>>

\* onMessage for such bytes: decode returns {}, and id.toString('hex')
\* throws a TypeError before anything else is done; the async function's
\* promise is rejected and nobody handles it.
onMessageUndecodable(p) ==
    /\ ~destroyed[p]
    /\ pc[p] # "await_handshake"
    /\ net[p] # <<>>
    /\ IdUndefined(decode(Head(net[p])))
    /\ net' = [net EXCEPT ![p] = Tail(@)]
    /\ log' = Logged(p, <<"onMessage threw", "TypeError">>)
    /\ UNCHANGED <<pc, idx, awaiting, caught, gateVars, streamVars, calls, pending, stats,
                   extErrors, running, handled, wlog, initFails, sessionVars>>

\* onMessage for bytes that decode.
onMessageDecoded(p) ==
    /\ net[p] # <<>>
    /\ ~IdUndefined(decode(Head(net[p])))
    /\ onMessage(p)

NextGarbage ==
    \/ \E p \in Peers :
          \/ \E req \in UserRequests : UserSend(p, req)
          \/ \E e \in ExtNames : GarbageArrives(p, e)
          \/ onMessageUndecodable(p)
          \/ onMessageDecoded(p)
          \/ HandlerSettle(p)
    \/ \E id \in DOMAIN calls : TimerFire(id)

SpecGarbage == InitRR /\ [][NextGarbage]_vars

\* C33: a frame that cannot be decoded is dropped without an exception: in
\* the step that takes it from the transport onMessage does not throw, no
\* handler is invoked, no frame is written, no call is settled and the
\* stream stays open.
C33_Step ==
    \A p \in Peers :
        (net[p] # <<>> /\ net'[p] = Tail(net[p]) /\ Head(net[p]).data = GarbageBytes) =>
            /\ Thrown(p)' = Thrown(p)
            /\ UNCHANGED <<running, handled, wlog, calls, pending, destroyed>>

C33_UndecodableDropped == [][C33_Step]_vars

(***************************************************************************)
(* Overlapping handler invocations (SpecRR).                               *)
(***************************************************************************)
\* C34 as stated: the handler invocations of one extension are serialized,
\* at most one of them is under way at any time.
C34_Serialized ==
    \A p \in Peers : \A inv1, inv2 \in running[p] :
        inv1.ext = inv2.ext => inv1 = inv2

\* This step hands peer p a request for the handler of a user extension.
HandlerDispatch(p) ==
    /\ net[p] # <<>> /\ net'[p] = Tail(net[p]) /\ ~destroyed'[p]
    /\ ~PendingMatch(pending[p], Head(net[p]))
    /\ HasMessageHandler(p, Head(net[p]).ext)
    /\ Head(net[p]).ext # InitExtName

\* C34: a request is given to the message handler in the step that takes
\* it from the transport, also while earlier invocations of the same
\* extension are suspended, and those stay suspended: invocations of one
\* extension start in arrival order and overlap.
C34_Step ==
    \A p \in Peers :
        HandlerDispatch(p) =>
            LET f == Head(net[p])
            IN  /\ handled'[p] = handled[p] \cup {f.id}
                /\ running'[p] = running[p] \cup
                       {[ext |-> f.ext, id |-> f.id, data |-> f.data, oneway |-> f.oneway]}
                /\ wlog'[p] = wlog[p]

C34_HandlersOverlap == [][C34_Step]_vars

\* The handler of B's "buffer" extension was called for A's second request
\* while its invocation for the first was suspended, and has answered the
\* second one first.
C34_Witness ==
    \E inv \in running["B"] : \E k \in DOMAIN wlog["B"] :
        /\ inv.ext = "buffer" /\ wlog["B"][k].ext = "buffer"
        /\ inv.id < wlog["B"][k].id
        /\ {inv.id, wlog["B"][k].id} \subseteq handled["B"]

(***************************************************************************)
(* Feed events (SpecFeed): the lifecycle of SpecLife, with session A       *)
(* created with or without a topic, and the transport's 'feed' events.     *)
(* Every hook returns and the remote side is valid: the aborts are those   *)
(* of SpecLife.                                                            *)
(***************************************************************************)
MaxFeeds == 2

\* The 'feed' events the transport of peer p has emitted.
FeedCount(p) == Cardinality({k \in DOMAIN log[p] : log[p][k][1] = "feed"})

FeedListening_AtOpen(p) == TRUE

\* The listener of 'feed' that calls the extensions is installed by the
\* statement after emit('handshake').
FeedListening(p) == \E k \in DOMAIN log[p] : log[p][k] = <<"emit", "handshake">>

\* The session was created without a topic and its once('feed', openFeed)
\* has not fired.
BootstrapWaiting(p) == topic[p] = NoTopic /\ feedKey[p] = NoTopic

\* The loop of the feed listener over the Map of extensions.
onFeedCalls(exts) == [i \in 1..Len(exts) |-> <<"onFeed", exts[i]>>]

\* The transport emits 'feed' with a discovery key: the listeners that are
\* installed at that moment run.
FeedEvent(p, dk) ==
    /\ pc[p] \notin {"open_loop", "open_await", "open_failed"}
    /\ ~destroyed[p]
    /\ FeedCount(p) < MaxFeeds
    /\ log' = [log EXCEPT ![p] =
                  @ \o << <<"feed", dk>> >>
                    \o (IF FeedListening(p) THEN onFeedCalls(registered[p]) ELSE <<>>)]
    /\ IF BootstrapWaiting(p)
       THEN feedKey' = [feedKey EXCEPT ![p] = discoveryToPublicKey(dk)]
       ELSE UNCHANGED feedKey
    /\ UNCHANGED <<pc, idx, awaiting, caught, gateVars, streamVars, runtimeVars,
                   initFails, nameVars, topic, lookup, emitted, closeVars, dataVars,
                   bootVars, errVars, mapVars>>

\* The transport completes its handshake once the first feed is open.
FeedHandshake(p) == feedKey[p] # NoTopic /\ OnceHandshake(p)

InitFeed ==
    /\ LifeFresh
    /\ topic \in {[p \in Peers |-> IF p = "A" THEN t ELSE "T1"] : t \in {"T1", NoTopic}}

NextFeed ==
    \/ OpenNext("A")
    \/ OpenReturns("A", TRUE)
    \/ FeedHandshake("A")
    \/ \E dk \in Topics : FeedEvent("A", dk)
    \/ InitNext("A")
    \/ InitReturns("A", TRUE)
    \/ ContinueReturns("A")
    \/ HandshakeNext("A")
    \/ HandshakeReturns("A", TRUE)
    \/ OnHandshakeNext("A")
    \/ OnHandshakeReturns("A", TRUE)
    \/ RemoteToken("B", "valid")
    \/ \E p \in Peers : onMessage(p)

SpecFeed == InitFeed /\ [][NextFeed]_vars

\* The position in the log of p of the emission of 'handshake', or 0.
HandshakeAt(p) ==
    IF \E k \in DOMAIN log[p] : log[p][k] = <<"emit", "handshake">>
    THEN CHOOSE k \in DOMAIN log[p] : log[p][k] = <<"emit", "handshake">>
    ELSE 0

\* The onFeed calls in the log of p, and the calls the feed events after
\* 'handshake' account for.
FeedCalls(p) == {k \in DOMAIN log[p] : log[p][k][1] = "onFeed"}

LateFeeds(p) ==
    {k \in DOMAIN log[p] : log[p][k][1] = "feed" /\ HandshakeAt(p) # 0 /\ k > HandshakeAt(p)}

\* C35: onFeed is called only for 'feed' events after the session emitted
\* 'handshake'; each of them calls onFeed once on every user extension, in
\* the order of registration; the events before it, the one that opens the
\* first feed of a session without topic included, call no onFeed.
C35_FeedAfterHandshake ==
    \A p \in Peers :
        /\ \A k \in LateFeeds(p) :
               /\ k + Len(registered[p]) <= Len(log[p])
               /\ \A i \in 1..Len(registered[p]) :
                      log[p][k + i] = <<"onFeed", registered[p][i]>>
        /\ Cardinality(FeedCalls(p)) = Len(registered[p]) * Cardinality(LateFeeds(p))
        /\ \A k \in FeedCalls(p) : HandshakeAt(p) # 0 /\ k > HandshakeAt(p)

\* Session A had no topic: the first feed event opened its feed and called
\* no onFeed, and a feed event after 'handshake' called onFeed on "buffer",
\* then on "auth".
C35_Witness ==
    /\ topic["A"] = NoTopic /\ feedKey["A"] # NoTopic
    /\ \E k \in DOMAIN log["A"] :
           /\ log["A"][k][1] = "feed" /\ k < HandshakeAt("A")
    /\ LateFeeds("A") # {}
    /\ log["A"][Len(log["A"])] = <<"onFeed", "auth">>
    /\ log["A"][Len(log["A"]) - 1] = <<"onFeed", "buffer">>

(***************************************************************************)
(* The routing of frames to extension objects (SpecRoute): session A is    *)
(* given extension objects, some under the same name and one under the     *)
(* name of the init extension, while the remote side writes frames.        *)
(***************************************************************************)
MaxSets == 3

MaxRouted == 2

\* The objects a user gives to setExtension.
ExtObjects ==
    {[name |-> "buffer", obj |-> "buffer#1"], [name |-> "buffer", obj |-> "buffer#2"],
     [name |-> "auth", obj |-> "auth#1"], [name |-> InitExtName, obj |-> "user#init"]}

\* The ExtensionInit the session creates for itself.
InitObject == "ExtensionInit"

MapPut_KeepsFirst(map, x) ==
    IF map[x.name] = NoObject THEN [map EXCEPT ![x.name] = x.obj] ELSE map

\* _extensionMap.set(extension.name, extension).
MapPut(map, x) == [map EXCEPT ![x.name] = x.obj]

\* The object _extensionHandler gives a frame of that name to.
Recipient(map, name) == IF name = InitExtName THEN InitObject ELSE map[name]

\* The entries of a kind in the log of p.
Entries(p, kind) == {k \in DOMAIN log[p] : log[p][k][1] = kind}

\* Protocol.setExtension(extension), with the object that is given.
setExtensionObject(p, x) ==
    /\ Cardinality(Entries(p, "setExtension")) < MaxSets
    /\ registered' = [registered EXCEPT ![p] = MapSet(@, x.name)]
    /\ extensionMap' = [extensionMap EXCEPT ![p] = MapPut(@, x)]
    /\ log' = Logged(p, <<"setExtension", x.obj>>)
    /\ UNCHANGED <<pc, idx, awaiting, caught, gateVars, streamVars, runtimeVars,
                   initFails, advertised, connVars, closeVars, dataVars, bootVars,
                   errVars>>

\* The remote side of p writes a frame under a name.
RemoteFrame(p, name) ==
    /\ ~destroyed[p]
    /\ Len(net[p]) + Cardinality(Entries(p, "extension-message")) < MaxRouted
    /\ net' = Write(net, Other(p), Request(name, 0, "hello", TRUE))
    /\ UNCHANGED <<lifeVars, gateVars, streamVars, calls, pending, stats, extErrors,
                   running, handled, wlog, initFails, sessionVars>>

\* _extensionHandler(name, message): the init extension, or the object the
\* Map holds for the name, is given the message; without one the session
\* emits ERR_PROTOCOL_EXTENSION_MISSING and destroys the stream.
Route(p) ==
    /\ ~destroyed[p]
    /\ net[p] # <<>>
    /\ LET target == Recipient(extensionMap[p], Head(net[p]).ext)
       IN  IF target = NoObject
           THEN MissingExtension(p)
           ELSE /\ log' = Logged(p, <<"extension-message", target>>)
                /\ net' = [net EXCEPT ![p] = Tail(@)]
                /\ UNCHANGED <<pc, idx, awaiting, caught, gateVars, streamVars, calls,
                               pending, stats, extErrors, running, handled, wlog,
                               initFails, sessionVars>>

InitRoute ==
    /\ Established
    /\ registered = [p \in Peers |-> <<>>]
    /\ advertised = [p \in Peers |-> <<>>]
    /\ ConnDefaults /\ CloseDefaults /\ DataDefaults /\ BootDefaults /\ ErrDefaults

NextRoute ==
    \/ \E x \in ExtObjects : setExtensionObject("A", x)
    \/ \E name \in MapNames : RemoteFrame("A", name)
    \/ Route("A")

SpecRoute == InitRoute /\ [][NextRoute]_vars

\* The objects given to setExtension of p under a name, in the order of
\* the calls.
SetUnder(p, name) ==
    {k \in Entries(p, "setExtension") :
        \E x \in ExtObjects : x.name = name /\ x.obj = log[p][k][2]}

\* The object last given to setExtension of p under a name.
LastSet(p, name) ==
    IF SetUnder(p, name) = {}
    THEN NoObject
    ELSE log[p][CHOOSE k \in SetUnder(p, name) : \A j \in SetUnder(p, name) : j <= k][2]

\* The session takes a frame from the transport.
RouteTakes(p) == net[p] # <<>> /\ net'[p] # net[p] /\ Len(net'[p]) < Len(net[p])

C36_Step ==
    \A p \in Peers :
        RouteTakes(p) =>
            LET name == Head(net[p]).ext
            IN  IF name = InitExtName
                THEN log'[p] = Append(log[p], <<"extension-message", InitObject>>)
                ELSE IF LastSet(p, name) # NoObject
                THEN log'[p] = Append(log[p], <<"extension-message", LastSet(p, name)>>)
                ELSE log'[p] = log[p] /\ destroyed'[p]

\* C36: a frame is given to exactly one extension object: a frame named
\* dxos.protocol.init to the session's ExtensionInit and to no object a
\* user registered, any other frame to the object last registered under
\* its name, so that an object replaced under its name gets nothing more.
C36_RoutedByName == [][C36_Step]_vars

\* Two objects were registered under "buffer" and a frame named "buffer"
\* was given to the second; an object was registered under the name of the
\* init extension and a frame of that name was given to the ExtensionInit.
C36_Witness ==
    /\ \E j, k \in Entries("A", "setExtension") :
           j < k /\ log["A"][j][2] = "buffer#1" /\ log["A"][k][2] = "buffer#2"
    /\ \E k \in Entries("A", "setExtension") : log["A"][k][2] = "user#init"
    /\ \E k \in Entries("A", "extension-message") : log["A"][k][2] = "buffer#2"
    /\ \E k \in Entries("A", "extension-message") : log["A"][k][2] = InitObject

(***************************************************************************)
(* Responses and the sends they settle (SpecRR).                           *)
(***************************************************************************)
\* What the message handler of the remote side does with the request of
\* call c: the handler of ExtensionInit, or the user's.
OwnOutcome(c) == IF c.ext = InitExtName THEN InitHandlerResult ELSE messageHandler(c.data)

\* C37: a send that resolved resolved with the value its own request made
\* the remote handler return, and a send that was rejected by a response
\* was rejected with the error its own request made the handler throw,
\* whatever the order in which the handler invocations finished.
C37_OwnResponse ==
    \A id \in DOMAIN calls :
        LET c == calls[id]
        IN  /\ (~c.oneway /\ c.state = "resolved") =>
                   /\ ~OwnOutcome(c).throws
                   /\ c.value = Val(OwnOutcome(c).value)
            /\ (c.state = "rejected" /\ c.first # "timeout") =>
                   /\ OwnOutcome(c).throws
                   /\ c.value = ErrVal([code |-> ErrorCodeOf(OwnOutcome(c)),
                                        message |-> OwnOutcome(c).message])

\* A sent "deny" and then "ping"; B's handler finished with the second
\* request first, and both sends were settled by their own responses.
C37_Witness ==
    \E i, j \in DOMAIN calls :
        /\ i < j /\ calls[i].peer = "A" /\ calls[j].peer = "A"
        /\ calls[i].data = "deny" /\ calls[j].data = "ping"
        /\ ~calls[i].oneway /\ ~calls[j].oneway
        /\ calls[i].state = "rejected" /\ calls[i].first = "error"
        /\ calls[j].state = "resolved" /\ calls[j].first = "response"
        /\ \E a, b \in DOMAIN wlog["B"] :
               a < b /\ wlog["B"][a].id = j /\ wlog["B"][b].id = i

(***************************************************************************)
(* A token that arrives before the wait (Spec).                            *)
(***************************************************************************)
\* validate of peer p goes on after its own request was answered.
ValidateGoesOn(p) ==
    /\ pc[p] = "validate_await" /\ pc'[p] # "validate_await"
    /\ calls[awaiting[p]].state = "resolved"

C38_Step ==
    \A p \in Peers :
        (ValidateGoesOn(p) /\ remoteInit[p] # "null") =>
            /\ pc'[p] = (IF remoteInit[p] = "true" THEN "handshake_loop" ELSE "catch")
            /\ signal'[p] = signal[p]

C38_NoLateWait ==
    \A p \in Peers : (pc[p] = "signal_wait" /\ signal[p] = "waiting") => remoteInit[p] = "null"

\* C38: when the remote token, valid or invalid, was recorded before
\* validate comes back from its own request, validate returns the recorded
\* result in that step and does not wait for the signal; a session that
\* waits has no result recorded.
C38_TokenNotLost == []C38_NoLateWait /\ [][C38_Step]_vars

\* The remote 'valid' was recorded and answered while validate of A was
\* still awaiting its own request, which has now been answered as well.
C38_Witness ==
    /\ pc["A"] = "validate_await" /\ calls[awaiting["A"]].state = "resolved"
    /\ remoteInit["A"] = "true" /\ TokenReceived("A", "valid")
    /\ signal["A"] = "idle"

(***************************************************************************)
(* The stream destroyed under the listener (SpecDestroy): the lifecycle of *)
(* SpecLife, in which the stream of session A can be destroyed at any      *)
(* moment, also while a hook is suspended.                                 *)
(***************************************************************************)
\* The listener of p is not running: it has not started, is suspended at
\* an await, or has finished.
ListenerIdle(p) ==
    pc[p] \in {"open_await", "await_handshake", "onInit_await", "continue_await",
               "break_await", "handshake_await", "onHandshake_await", "running"}

\* The stream of p is destroyed between two runs of the listener.
DestroySuspended(p) == ListenerIdle(p) /\ StreamDestroy(p)

NextDestroy ==
    \/ OpenNext("A")
    \/ \E ok \in BOOLEAN : OpenReturns("A", ok)
    \/ OnceHandshake("A")
    \/ InitNext("A")
    \/ \E ok \in BOOLEAN : InitReturns("A", ok)
    \/ ContinueReturns("A")
    \/ Break("A")
    \/ BreakReturns("A")
    \/ ListenerCatch("A")
    \/ HandshakeNext("A")
    \/ \E ok \in BOOLEAN : HandshakeReturns("A", ok)
    \/ OnHandshakeNext("A")
    \/ \E ok \in BOOLEAN : OnHandshakeReturns("A", ok)
    \/ \E data \in {"valid", "invalid"} : RemoteToken("B", data)
    \/ \E p \in Peers : onMessage(p)
    \/ GateTimerStep
    \/ DestroySuspended("A")

SpecDestroy == InitLife /\ [][NextDestroy]_vars

\* What this step adds to the log of p.
NewEntries(p) ==
    IF Len(log'[p]) > Len(log[p]) THEN SubSeq(log'[p], Len(log[p]) + 1, Len(log'[p])) ELSE <<>>

\* The entry is the start of a hook or the emission of 'handshake'.
HookStart(entry) ==
    \/ entry[1] \in {"onInit", "handshake.cb", "onHandshake"}
    \/ entry = <<"emit", "handshake">>

C39_Step ==
    \A p \in Peers :
        destroyed[p] => \A k \in DOMAIN NewEntries(p) : ~HookStart(NewEntries(p)[k])

\* C39 as stated: on a session whose stream is destroyed no onInit, no
\* handshake callback and no onHandshake is started and 'handshake' is not
\* emitted, also when the stream was destroyed while a hook was suspended.
C39_NoHookAfterDestroy == [][C39_Step]_vars

(***************************************************************************)
(* The counters of an extension (SpecRR).                                  *)
(***************************************************************************)
\* The sends issued on extension e of peer p, and those that expect a
\* response.
SendsOf(p, e) == {i \in DOMAIN calls : calls[i].peer = p /\ calls[i].ext = e}

RequestsOf(p, e) == {i \in SendsOf(p, e) : ~calls[i].oneway}

\* C40: stats.send of an extension is the number of its send() calls, each
\* of which writes one request frame, one-way or not, and counts no
\* response the extension wrote; stats.receive and stats.error are each
\* at most the number of its sends that expect a response.
C40_StatsBounds ==
    \A p \in Peers : \A e \in ExtNames :
        /\ stats[p][e].send = Cardinality(SendsOf(p, e))
        /\ stats[p][e].receive <= Cardinality(RequestsOf(p, e))
        /\ stats[p][e].error <= Cardinality(RequestsOf(p, e))

\* A's "buffer" sent a one-way and a two-way request; B's "buffer" wrote a
\* response and has sent nothing; A counted the response, and the timer of
\* the request had not yet been stopped by it.
C40_Witness ==
    /\ Cardinality(SendsOf("A", "buffer")) = 2
    /\ Cardinality(RequestsOf("A", "buffer")) = 1
    /\ stats["A"]["buffer"].send = 2 /\ stats["A"]["buffer"].receive = 1
    /\ \E k \in DOMAIN wlog["B"] : wlog["B"][k].ext = "buffer"
    /\ stats["B"]["buffer"].send = 0
====
